---- MODULE Spec2Model ----
(***************************************************************************)
(* Model of scripts/smapprocessor.py (SMAPProcessor), of the terrain part *)
(* of scripts/staticprocessor.py, of scripts/init_dbs.py (setup_database, *)
(* the stations and smap_features tables) and of scripts/openflow_cron.py *)
(* (authenticate, search_vegdri_dataset, find_date_range, main and the    *)
(* date queue).  Each component has its own specification; the variables  *)
(* of the other components stay idle while it runs.                        *)
(*                                                                         *)
(* Specifications.  ExtractSpec: the two extraction paths of one station. *)
(* Spec: process_data over a period of one day, several processors one    *)
(* after the other.  DaySpec: one processor over a period of up to        *)
(* NumDays days; DayFairSpec adds the fairness of a running loop.         *)
(* LoginSpec: Spec together with direct calls of authenticate.  NormSpec, *)
(* TerrainSpec, GranuleSpec, StoreSpec, SearchSpec: the normalizer, the   *)
(* tile loop, the station loop of a granule, the stations table and the   *)
(* dataset search.  CronSpec: main of openflow_cron.  DistanceSpec: the   *)
(* haversine arithmetic of the two extraction paths.  DbSpec:             *)
(* setup_database on database files of every shape.                       *)
(*                                                                         *)
(* Numbers.  Python floats are modelled as exact rationals [num, den] in   *)
(* lowest terms (den > 0); NaN is the record with den = 0.  Grid           *)
(* coordinates are in units of 1e-5 degree and all lie on the equator,     *)
(* where the haversine formula of the code reduces to R * |dlon| (a = 0,   *)
(* cos(lat) = 1, 2*arcsin(sqrt(sin^2(dlon/2))) = dlon); distances are      *)
(* kept in tenths of a kilometre.  DistanceSpec leaves the equator: its   *)
(* points have latitudes and longitudes that are multiples of 60 degrees, *)
(* where sin^2 and cos are rational, and it keeps the haversine term c    *)
(* with the rounding of the float sum made explicit.                       *)
(***************************************************************************)
EXTENDS Integers, Sequences, FiniteSets, TLC

\* ------------------------------------------------------------------ bounds
MaxCells == 4          \* largest grid (cells of the flattened arrays)
SmallChunk == 2        \* a chunk_size smaller than the grids

\* ------------------------------------------------------- program constants
DefaultChunk == 50     \* chunk_size default
RadiusKm == 5          \* radius_km default
MinPixels == 3         \* "Require at least 3 valid pixels"
FillValue == -9999
TenthKmPerDegree == 1112   \* 10 * 6371 * pi / 180, rounded: tenths of a km per degree

VARIABLES
  \* one extraction call: its arguments, the chunk loop and the two results
  datasets,        \* [soil_moisture, retrieval_qual_flag, latitude, longitude]
  target,          \* index into Stations of the station extracted for
  chunk_size,      \* self.chunk_size
  xpc,             \* "single" | "chunk" | "done"
  i,               \* chunk loop index of _get_station_data_chunked
  weighted_sum,    \* accumulators of _get_station_data_chunked
  weight_sum,
  quality_sum,
  single_result,   \* result of the non-chunked body of _get_station_data
  chunked_result,  \* result of _get_station_data_chunked
  dispatched,      \* what _get_station_data returned, and by which path
  \* history
  examined         \* the flat indices (1-based) the chunk loop has sliced out, in order

xvars == <<datasets, target, xpc, i, weighted_sum, weight_sum,
           quality_sum, single_result, chunked_result, dispatched, examined>>

VARIABLES
  \* what the processors are offered
  horizon,         \* the period common to the datasets is the days 1..horizon
  granule_pool,    \* the grids a granule file can hold
  processors,      \* how many processors are constructed, one after the other
  \* SMAPProcessor: one run is one construction (which calls process_data)
  ppc,             \* "idle" | "loop" (the while test of process_data) | "day"
  runs,            \* processors constructed so far
  login,           \* earthaccess.login of the latest construction: "none" | "ok" | "raised"
  start_date,      \* self.start_date (day number)
  end_date,        \* self.end_date (day number)
  current_date,    \* current_date of process_data
  temp_files,      \* the files in temp_smap: <<day, index of the granule>>
  \* locals of _process_daily_granules
  n_granules,      \* len(granules)
  granule_idx,     \* index of the next granule of the for loop (1-based)
  am_data,         \* None or dict station id -> pass result
  pm_data,
  am_grid,         \* the datasets read from the granule that set am_data
  pm_grid,
  station_idx,     \* index of the next station of the combine loop
  daily_data,      \* dict station id -> fused record
  \* the table smap_features of data/earth_data.db
  smap_features,
  \* history
  replaced,        \* whether a save has replaced a row by a different one
  handled,         \* the days the latest processor is through with, in order
  yielded          \* ids of the stations some granule of the day gave a result for

pvars == <<horizon, granule_pool, processors, ppc, runs, login, start_date, end_date, current_date,
           temp_files, n_granules, granule_idx, am_data, pm_data, am_grid, pm_grid,
           station_idx, daily_data, smap_features, replaced, handled, yielded>>

VARIABLES
  \* calls of _normalize_soil_moisture
  norm_args,       \* the values it is called with, one call after the other
  norm_out         \* what the calls made so far returned

nvars == <<norm_args, norm_out>>

VARIABLES
  \* one call of StaticProcessor._get_elevation_and_slope
  tiles,           \* granules: the candidate SRTM tiles, in order
  tile_idx,        \* index of the next granule of the for loop (1-based)
  terrain,         \* the (elevation, slope) returned
  tpc              \* "loop" | "returned" | "raised"

tvars == <<tiles, tile_idx, terrain, tpc>>

VARIABLES
  \* one call of _process_granule, station by station; the arrays read from
  \* the file are in datasets, the accumulators of the latest chunked
  \* extraction in weighted_sum, weight_sum and quality_sum
  g_order,         \* self.stations: the order in which the stations are listed
  g_idx,           \* index of the next station of the for loop (1-based)
  g_data,          \* data: dict station id -> pass result
  g_logged,        \* ids of the stations whose exception was logged
  gpc              \* "stations" (in the for loop) | "returned"

gvars == <<g_order, g_idx, g_data, g_logged, gpc>>

VARIABLES
  \* the table stations of data/earth_data.db
  stations_tbl,    \* dict station id -> the columns elevation and slope of its row
  ops,             \* store_stations calls and StaticProcessor runs so far
  \* history: dict station id -> the first terrain sample saved for it
  first_written

svars == <<stations_tbl, ops, first_written>>

VARIABLES
  \* one call of openflow_cron.search_vegdri_dataset
  responses,       \* what earthaccess.search_datasets does, attempt by attempt
  attempt,         \* attempt of the for loop (1-based)
  calls,           \* the params of the search_datasets calls made so far
  search_result,   \* what the function returned
  qpc              \* "searching" | "returned"

qvars == <<responses, attempt, calls, search_result, qpc>>

VARIABLES
  \* openflow_cron: one run of main, or direct calls of authenticate
  cpc,             \* "idle" | "main" | "search" | "queue" | "ended"
  auth,            \* the latest authenticate(): what the login did, and the result
  metadata,        \* the row of vegdri_metadata: None or <<start_date, end_date>>
  queue,           \* the asyncio.Queue of date strings
  total_days,      \* total_days of main
  cron_files,      \* the temporary files of process_date that exist
  main_error,      \* whether the except clause of main has run
  \* history
  enqueued,        \* the dates put into the queue, in order
  dequeued,        \* the dates got from the queue, in order
  completed,       \* the dates whose process_date returned, in order
  tasks_done       \* calls of queue.task_done()

cvars == <<cpc, auth, metadata, queue, total_days, cron_files, main_error,
           enqueued, dequeued, completed, tasks_done>>

VARIABLES
  \* the distance from one station to one cell
  station_pt,      \* station.latitude, station.longitude (degrees)
  cell_pt,         \* lat, lon of the cell
  rounding,        \* what floating point does to a + b
  d_single,        \* distances of _get_station_data for the cell
  d_chunked,       \* distances of _get_station_data_chunked for the cell
  d_reverse,       \* the same with station and cell exchanged
  d_self           \* the same for a cell at the station

dvars == <<station_pt, cell_pt, rounding, d_single, d_chunked, d_reverse, d_self>>

VARIABLES
  \* the file data/earth_data.db as init_dbs sees it
  db,              \* [exists, tables]
  setups,          \* calls of setup_database so far
  \* history
  db_before,       \* the file before the latest call of setup_database
  db_after         \* the file as that call left it

bvars == <<db, setups, db_before, db_after>>

\* the variables of the other components, idle while extraction or the
\* pipeline runs
evars == <<nvars, tvars, gvars, svars, qvars, cvars, dvars, bvars>>

vars == <<xvars, chunk_size, pvars, evars>>

\* --------------------------------------------------------------- rationals
Abs(x) == IF x < 0 THEN -x ELSE x

RECURSIVE GCD(_, _)
GCD(a, b) == IF b = 0 THEN a ELSE GCD(b, a % b)

\* n/d in lowest terms, d > 0
Rat(n, d) == LET g == GCD(Abs(n), d) IN [num |-> n \div g, den |-> d \div g]
RInt(n) == [num |-> n, den |-> 1]
Zero == RInt(0)
One == RInt(1)
NaN == [num |-> 0, den |-> 0]
IsNaN(x) == x.den = 0

RAdd(x, y) == Rat(x.num * y.den + y.num * x.den, x.den * y.den)
RMul(x, y) == Rat(x.num * y.num, x.den * y.den)
\* x / y for y > 0
RDiv(x, y) == Rat(x.num * y.den, x.den * y.num)
RLeq(x, y) == x.num * y.den <= y.num * x.den
RLess(x, y) == x.num * y.den < y.num * x.den
RMin(x, y) == IF RLeq(x, y) THEN x ELSE y
RMax(x, y) == IF RLeq(x, y) THEN y ELSE x
\* Python int() of a non-negative float
Trunc(x) == RInt(x.num \div x.den)

RECURSIVE SumSeq(_)
SumSeq(s) == IF s = <<>> THEN Zero ELSE RAdd(Head(s), SumSeq(Tail(s)))

\* ----------------------------------------------------------------- inputs
\* stations.Station: id, latitude, longitude
Stations == << [id |-> "USGS:A", latitude |-> 0, longitude |-> 0],
               [id |-> "USGS:B", latitude |-> 0, longitude |-> 5216] >>

\* Longitude of the k-th cell of the flattened grid: cells 0.0, 1.9, 3.9,
\* 5.8, 7.7, 9.6 km east of station A.
CellLon == <<0, 1709, 3507, 5216, 6925, 8634>>

\* soil_moisture cell values: fill, out of the valid range, two valid ones
SmValues == {RInt(FillValue), Rat(3, 2), Rat(1, 5), Rat(2, 5)}
QualityCodes == {0, 1}

Grids(n) ==
  { [soil_moisture |-> s, retrieval_qual_flag |-> q,
     latitude |-> [k \in 1..n |-> 0], longitude |-> [k \in 1..n |-> CellLon[k]]] :
    s \in [1..n -> SmValues], q \in [1..n -> QualityCodes] }

Size(ds) == Len(ds.soil_moisture)

\* ------------------------------------------------ _get_station_data pieces
\* Great-circle distance in tenths of a km between two points of the
\* equator (coordinates in 1e-5 degree).
Haversine(lat1, lon1, lat2, lon2) ==
  (Abs(lon2 - lon1) * TenthKmPerDegree + 50000) \div 100000

distances(ds, st, k) ==
  Haversine(Stations[st].latitude, Stations[st].longitude,
            ds.latitude[k], ds.longitude[k])

WithinRadius(ds, st, k) == distances(ds, st, k) <= 10 * RadiusKm

valid_data(v) == v # RInt(FillValue) /\ RLeq(Zero, v) /\ RLeq(v, One)

\* weights = 1 / (distances + 0.1)
weights(ds, st, k) == Rat(10, distances(ds, st, k) + 1)

quality_weights(ds, k) ==
  IF ds.retrieval_qual_flag[k] = 0 THEN One ELSE Rat(1, 2)

final_weights(ds, st, k) == RMul(weights(ds, st, k), quality_weights(ds, k))

IsBest(ds, k) == IF ds.retrieval_qual_flag[k] = 0 THEN One ELSE Zero

\* sum of term over the cells lo..hi selected by mask
MaskedSum(mask, term, lo, hi) ==
  SumSeq([j \in 1..(hi - lo + 1) |->
            IF (lo + j - 1) \in mask THEN term[lo + j - 1] ELSE Zero])

\* mutant: the normalizer without the upper clip
NormalizeUnclipped(value) ==
  IF IsNaN(value) THEN Zero
  ELSE RMax(Zero, RDiv(value, Rat(1, 2)))

_normalize_soil_moisture(value) ==
  IF IsNaN(value) THEN Zero
  ELSE RMin(One, RMax(Zero, RDiv(value, Rat(1, 2))))

\* The non-chunked body of _get_station_data.
SinglePass(ds, st) ==
  LET n == Size(ds)
      weight_mask == {k \in 1..n : WithinRadius(ds, st, k)
                                   /\ valid_data(ds.soil_moisture[k])}
      w == [k \in 1..n |-> weights(ds, st, k)]
      fw == [k \in 1..n |-> final_weights(ds, st, k)]
      smfw == [k \in 1..n |-> RMul(ds.soil_moisture[k], fw[k])]
      bw == [k \in 1..n |-> RMul(IsBest(ds, k), w[k])]
  IN IF weight_mask = {} THEN [value |-> NaN, quality |-> Zero]
     ELSE IF Cardinality(weight_mask) < MinPixels
       THEN [value |-> NaN, quality |-> Zero]
     ELSE LET sm_value == RDiv(MaskedSum(weight_mask, smfw, 1, n),
                               MaskedSum(weight_mask, fw, 1, n))
              quality_score == RMul(RDiv(MaskedSum(weight_mask, bw, 1, n),
                                         MaskedSum(weight_mask, w, 1, n)),
                                    RInt(100))
          IN [value |-> sm_value, quality |-> Trunc(quality_score)]

\* ---------------------------------------- _get_station_data_chunked pieces
\* mutant: the number of whole chunks
n_chunks_floor(ds, cs) == Size(ds) \div cs

n_chunks(ds, cs) == (Size(ds) + cs - 1) \div cs

\* start_idx and end_idx of chunk c (0-based), and the flat indices
\* (1-based) of chunk_slice in order
ChunkStart(cs, c) == c * cs
ChunkEnd(ds, cs, c) == IF (c + 1) * cs < Size(ds) THEN (c + 1) * cs ELSE Size(ds)
ChunkSlice(ds, cs, c) ==
  [j \in 1..(ChunkEnd(ds, cs, c) - ChunkStart(cs, c)) |-> ChunkStart(cs, c) + j]

\* One iteration of the chunk loop: the accumulators after chunk c (0-based).
ChunkBody(acc, ds, st, cs, c) ==
  LET n == Size(ds)
      start_idx == ChunkStart(cs, c)
      end_idx == ChunkEnd(ds, cs, c)
      mask == {k \in (start_idx + 1)..end_idx : WithinRadius(ds, st, k)}
      w == [k \in 1..n |-> weights(ds, st, k)]
      fw == [k \in 1..n |-> final_weights(ds, st, k)]
      smfw == [k \in 1..n |-> RMul(ds.soil_moisture[k], fw[k])]
      bw == [k \in 1..n |-> RMul(IsBest(ds, k), w[k])]
  IN IF mask = {} THEN acc
     ELSE [weighted_sum |-> RAdd(acc.weighted_sum,
                                 MaskedSum(mask, smfw, start_idx + 1, end_idx)),
           weight_sum |-> RAdd(acc.weight_sum,
                               MaskedSum(mask, fw, start_idx + 1, end_idx)),
           quality_sum |-> RAdd(acc.quality_sum,
                                MaskedSum(mask, bw, start_idx + 1, end_idx))]

\* The statements after the chunk loop.
ChunkedReturn(acc) ==
  IF acc.weight_sum = Zero THEN [value |-> NaN, quality |-> Zero]
  ELSE LET sm_value == RDiv(acc.weighted_sum, acc.weight_sum)
           quality_score == RMul(RDiv(acc.quality_sum, acc.weight_sum), RInt(100))
       IN [value |-> _normalize_soil_moisture(sm_value), quality |-> quality_score]

\* mutant: the accumulators not set to zero at the start of a call, so
\* that they still hold the sums of the call before
StaleAcc == [weighted_sum |-> weighted_sum, weight_sum |-> weight_sum,
             quality_sum |-> quality_sum]

\* "Initialize accumulators"
ZeroAcc == [weighted_sum |-> Zero, weight_sum |-> Zero, quality_sum |-> Zero]

\* the flat indices sliced out by the chunks from c on, after seq
RECURSIVE SliceLoop(_, _, _, _)
SliceLoop(seq, ds, cs, c) ==
  IF c >= n_chunks(ds, cs) THEN seq
  ELSE SliceLoop(seq \o ChunkSlice(ds, cs, c), ds, cs, c + 1)

RECURSIVE ChunkLoop(_, _, _, _, _)
ChunkLoop(acc, ds, st, cs, c) ==
  IF c >= n_chunks(ds, cs) THEN acc
  ELSE ChunkLoop(ChunkBody(acc, ds, st, cs, c), ds, st, cs, c + 1)

_get_station_data_chunked(ds, st, cs) ==
  ChunkedReturn(ChunkLoop(ZeroAcc, ds, st, cs, 0))

\* the test at the head of _get_station_data
TakesChunkedPath(ds, cs) == Size(ds) > cs

_get_station_data(ds, st, cs) ==
  IF TakesChunkedPath(ds, cs) THEN _get_station_data_chunked(ds, st, cs)
  ELSE SinglePass(ds, st)

\* ------------------------------------------- the extraction specification
\* Both extraction paths are run on the same grid, target and chunk size.
NoResult == [value |-> NaN, quality |-> RInt(-1)]

XInit ==
  /\ datasets \in UNION {Grids(n) : n \in 1..MaxCells}
  /\ target \in 1..Len(Stations)
  /\ chunk_size \in {SmallChunk, DefaultChunk}
  /\ xpc = "single"
  /\ i = 0
  /\ weighted_sum = Zero
  /\ weight_sum = Zero
  /\ quality_sum = Zero
  /\ single_result = NoResult
  /\ chunked_result = NoResult
  /\ dispatched = [path |-> "none", result |-> NoResult]
  /\ examined = <<>>

XSinglePass ==
  /\ xpc = "single"
  /\ single_result' = SinglePass(datasets, target)
  /\ xpc' = "chunk"
  /\ UNCHANGED <<datasets, target, chunk_size, i, weighted_sum, weight_sum,
                 quality_sum, chunked_result, dispatched, examined, pvars, evars>>

XChunkStep ==
  /\ xpc = "chunk"
  /\ i < n_chunks(datasets, chunk_size)
  /\ LET acc == ChunkBody([weighted_sum |-> weighted_sum, weight_sum |-> weight_sum,
                           quality_sum |-> quality_sum],
                          datasets, target, chunk_size, i)
     IN /\ weighted_sum' = acc.weighted_sum
        /\ weight_sum' = acc.weight_sum
        /\ quality_sum' = acc.quality_sum
  /\ examined' = examined \o ChunkSlice(datasets, chunk_size, i)
  /\ i' = i + 1
  /\ UNCHANGED <<datasets, target, chunk_size, xpc, single_result, chunked_result,
                 dispatched, pvars, evars>>

XChunkReturn ==
  /\ xpc = "chunk"
  /\ i >= n_chunks(datasets, chunk_size)
  /\ chunked_result' = ChunkedReturn([weighted_sum |-> weighted_sum,
                                      weight_sum |-> weight_sum,
                                      quality_sum |-> quality_sum])
  /\ xpc' = "done"
  /\ UNCHANGED <<datasets, target, chunk_size, i, weighted_sum, weight_sum,
                 quality_sum, single_result, dispatched, examined, pvars, evars>>

\* _get_station_data itself: the size test picks the path whose result is
\* returned
XDispatch ==
  /\ xpc = "done"
  /\ dispatched' =
       IF TakesChunkedPath(datasets, chunk_size)
       THEN [path |-> "chunked", result |-> chunked_result]
       ELSE [path |-> "single", result |-> single_result]
  /\ xpc' = "returned"
  /\ UNCHANGED <<datasets, target, chunk_size, i, weighted_sum, weight_sum,
                 quality_sum, single_result, chunked_result, examined, pvars, evars>>

\* ------------------------------------------------------- python values
None == [none |-> TRUE]
EmptyDict == <<>>
\* truth value of None or of a dict
Truthy(d) == d # None /\ DOMAIN d # {}
\* d[k] = v
DictSet(d, k, v) == [x \in DOMAIN d \cup {k} |-> IF x = k THEN v ELSE d[x]]
\* d.get(k)
DictGet(d, k) == IF k \in DOMAIN d THEN d[k] ELSE None
DictValues(d) == {d[k] : k \in DOMAIN d}

\* --------------------------------------------------------- pipeline inputs
NumDays == 2           \* the longest period on offer is the days 1..NumDays
MaxRuns == 2           \* processors constructed one after the other
MaxGranules == 2       \* count=2 of earthaccess.search_data

\* int(date.timestamp())
Timestamp(day) == day * 86400

\* Granule grids: one cell more than SmallChunk, so that a processor built
\* with chunk_size = SmallChunk takes the chunked path and one built with
\* the default takes the single pass.
GranuleCells == SmallChunk + 1
Uniform(n, v, q) ==
  [soil_moisture |-> [k \in 1..n |-> v], retrieval_qual_flag |-> [k \in 1..n |-> q],
   latitude |-> [k \in 1..n |-> 0], longitude |-> [k \in 1..n |-> CellLon[k]]]
GranuleGrids ==
  { Uniform(GranuleCells, Rat(1, 5), 0),           \* every cell valid, quality 0
    Uniform(GranuleCells, Rat(2, 5), 1),           \* every cell valid, quality 1
    [Uniform(GranuleCells, Rat(2, 5), 1)           \* mixed quality
       EXCEPT !.soil_moisture[1] = Rat(1, 5), !.retrieval_qual_flag[2] = 0],
    Uniform(GranuleCells, RInt(FillValue), 0),     \* fill values only
    Uniform(GranuleCells, Rat(3, 2), 0) }          \* values above the valid range only

\* ------------------------------------------------------- _process_granule
\* The station loop of _process_granule (the definition in force, the
\* second one of the class): the dict of the stations with a non-NaN value.
RECURSIVE StationLoop(_, _, _, _, _)
StationLoop(data, ds, cs, is_am, k) ==
  IF k > Len(Stations) THEN data
  ELSE LET result == _get_station_data(ds, k, cs)
           entry == [soil_moisture |-> result.value,
                     quality_flag |-> result.quality,
                     is_am |-> is_am]
       IN StationLoop(IF IsNaN(result.value) THEN data
                      ELSE DictSet(data, Stations[k].id, entry),
                      ds, cs, is_am, k + 1)

\* readable = FALSE: h5py.File raises or a dataset is missing; data stays {}.
_process_granule(readable, ds, cs, is_am) ==
  IF readable THEN StationLoop(EmptyDict, ds, cs, is_am, 1) ELSE EmptyDict

\* ----------------------------------------------------- _combine_am_pm_data
\* mutant: the two passes added up
SumOfPasses(a, b) == RAdd(a, b)

\* (am_data['soil_moisture'] + pm_data['soil_moisture']) / 2
Mean(a, b) == RDiv(RAdd(a, b), RInt(2))

_combine_am_pm_data(timestamp, station_id, am, pm) ==
  LET both == am # None /\ pm # None
      data == IF am # None THEN am ELSE pm
      picked ==
        IF both
        THEN IF RLess(am.quality_flag, pm.quality_flag)
               THEN [soil_moisture |-> am.soil_moisture, quality_flag |-> am.quality_flag]
             ELSE IF RLess(pm.quality_flag, am.quality_flag)
               THEN [soil_moisture |-> pm.soil_moisture, quality_flag |-> pm.quality_flag]
             ELSE [soil_moisture |-> Mean(am.soil_moisture, pm.soil_moisture),
                   quality_flag |-> am.quality_flag]
        ELSE [soil_moisture |-> data.soil_moisture, quality_flag |-> data.quality_flag]
  IN IF ~both /\ data = None THEN None
     ELSE [timestamp |-> timestamp,
           station_id |-> station_id,
           soil_moisture |-> picked.soil_moisture,
           quality_flag |-> Trunc(picked.quality_flag)]

\* ------------------------------------------------------- _save_daily_data
\* PRIMARY KEY (timestamp, station_id) of smap_features
SameKey(r1, r2) == r1.timestamp = r2.timestamp /\ r1.station_id = r2.station_id

\* mutant: a plain INSERT into a table without the primary key
InsertOnly(table, row) == table \cup {row}

\* INSERT OR REPLACE INTO smap_features
InsertOrReplace(table, row) == {r \in table : ~SameKey(r, row)} \cup {row}

RECURSIVE InsertAll(_, _)
InsertAll(table, rows) ==
  IF rows = {} THEN table
  ELSE LET row == CHOOSE r \in rows : TRUE
       IN InsertAll(InsertOrReplace(table, row), rows \ {row})

\* ------------------------------------------------------------ the pipeline
\* mutant: the combine loop entered with the last granule still to handle
LoopExhaustedEarly(k, n) == k >= n

\* the for loop over the granules has handled every granule
LoopExhausted(k, n) == k > n

\* mutant: the except clause around earthaccess.login logs the exception
\* and lets construction go on
LoginErrorSwallowed(outcome) == FALSE

\* the except clause around earthaccess.login: the exception is logged and
\* raised again
Reraised(outcome) == outcome = "raises"

\* mutant: the day loop stops before the last day
WhileBeforeEnd(current, last) == current < last

\* while current_date <= self.end_date
WhileTest(current, last) == current <= last

\* the idle pipeline, whatever the period and the granules on offer
PRest ==
  /\ ppc = "idle"
  /\ runs = 0
  /\ login = "none"
  /\ start_date = 0
  /\ end_date = 0
  /\ current_date = 0
  /\ handled = <<>>
  /\ temp_files = {}
  /\ n_granules = 0
  /\ granule_idx = 1
  /\ am_data = None
  /\ pm_data = None
  /\ am_grid = None
  /\ pm_grid = None
  /\ yielded = {}
  /\ station_idx = 1
  /\ daily_data = EmptyDict
  /\ smap_features = {}
  /\ replaced = FALSE

\* every grid on offer, processors run again and again over one day
PIdle ==
  /\ PRest
  /\ horizon = 1
  /\ granule_pool = GranuleGrids
  /\ processors = MaxRuns

\* SMAPProcessor(stations, start_date, end_date, chunk_size=cs): the login
\* succeeds and process_data is called
Construct ==
  /\ ppc = "idle"
  /\ runs < processors
  /\ \E start \in 1..horizon, e \in 1..horizon, cs \in {SmallChunk, DefaultChunk},
        outcome \in {"ok", "raises"} :
       /\ ~Reraised(outcome)
       /\ start_date' = start
       /\ current_date' = start
       /\ end_date' = e
       /\ chunk_size' = cs
       /\ login' = IF outcome = "ok" THEN "ok" ELSE "raised"
  /\ runs' = runs + 1
  /\ handled' = <<>>
  /\ ppc' = "loop"
  /\ UNCHANGED <<evars, xvars, horizon, granule_pool, processors, temp_files, n_granules, granule_idx,
                 am_data, pm_data, am_grid, pm_grid, yielded, station_idx,
                 daily_data, smap_features, replaced>>

\* SMAPProcessor(...): earthaccess.login raises; the attributes assigned
\* before the login are set, process_data is not called
ConstructFails ==
  /\ ppc = "idle"
  /\ runs < processors
  /\ \E start \in 1..horizon, e \in 1..horizon, cs \in {SmallChunk, DefaultChunk},
        outcome \in {"ok", "raises"} :
       /\ Reraised(outcome)
       /\ start_date' = start
       /\ end_date' = e
       /\ chunk_size' = cs
  /\ login' = "raised"
  /\ runs' = runs + 1
  /\ handled' = <<>>
  /\ UNCHANGED <<evars, xvars, horizon, granule_pool, processors, ppc, current_date, temp_files,
                 n_granules, granule_idx, am_data, pm_data, am_grid, pm_grid, yielded,
                 station_idx, daily_data, smap_features, replaced>>

\* process_data: the while test fails; the finally block removes the files
\* left in temp_smap
Finish ==
  /\ ppc = "loop"
  /\ ~WhileTest(current_date, end_date)
  /\ temp_files' = {}
  /\ ppc' = "idle"
  /\ UNCHANGED <<evars, xvars, chunk_size, horizon, granule_pool, processors, runs, login, start_date,
                 end_date, current_date, handled, n_granules, granule_idx,
                 am_data, pm_data, am_grid, pm_grid, yielded, station_idx, daily_data,
                 smap_features, replaced>>

\* process_data: search_data raises or finds no granule; the day is skipped
SkipDay ==
  /\ ppc = "loop"
  /\ WhileTest(current_date, end_date)
  /\ handled' = Append(handled, current_date)
  /\ current_date' = current_date + 1
  /\ UNCHANGED <<evars, xvars, chunk_size, horizon, granule_pool, processors, ppc, runs, login,
                 start_date, end_date, temp_files, n_granules, granule_idx, am_data,
                 pm_data, am_grid, pm_grid, yielded, station_idx, daily_data,
                 smap_features, replaced>>

\* process_data: search_data finds n granules; _process_daily_granules starts
StartDay ==
  /\ ppc = "loop"
  /\ WhileTest(current_date, end_date)
  /\ \E n \in 1..MaxGranules : n_granules' = n
  /\ granule_idx' = 1
  /\ am_data' = None
  /\ pm_data' = None
  /\ am_grid' = None
  /\ pm_grid' = None
  /\ yielded' = {}
  /\ station_idx' = 1
  /\ daily_data' = EmptyDict
  /\ ppc' = "day"
  /\ UNCHANGED <<evars, xvars, chunk_size, horizon, granule_pool, processors, runs, login, start_date,
                 end_date, current_date, handled, temp_files, smap_features, replaced>>

\* one iteration of the granule loop that leaves no file: the download
\* returns nothing or raises
GranuleNoFile ==
  /\ ppc = "day"
  /\ granule_idx <= n_granules
  /\ granule_idx' = granule_idx + 1
  /\ UNCHANGED <<evars, xvars, chunk_size, horizon, granule_pool, processors, ppc, runs, login,
                 start_date, end_date, current_date, handled, temp_files, n_granules,
                 am_data, pm_data, am_grid, pm_grid, yielded, station_idx, daily_data,
                 smap_features, replaced>>

\* one iteration of the granule loop for a downloaded file whose name is
\* neither AM nor PM: the continue is taken before the try whose finally
\* clause unlinks the file
GranuleUnclassified ==
  /\ ppc = "day"
  /\ granule_idx <= n_granules
  /\ temp_files' = temp_files \cup {<<current_date, granule_idx>>}
  /\ granule_idx' = granule_idx + 1
  /\ UNCHANGED <<evars, xvars, chunk_size, horizon, granule_pool, processors, ppc, runs, login,
                 start_date, end_date, current_date, handled, n_granules,
                 am_data, pm_data, am_grid, pm_grid, yielded, station_idx, daily_data,
                 smap_features, replaced>>

\* one iteration of the granule loop for a granule classified as AM; the
\* file is unlinked in the finally clause
GranuleAM ==
  /\ ppc = "day"
  /\ granule_idx <= n_granules
  /\ \E readable \in BOOLEAN, ds \in granule_pool :
       /\ am_data' = _process_granule(readable, ds, chunk_size, TRUE)
       /\ am_grid' = IF readable THEN ds ELSE None
  /\ yielded' = yielded \cup DOMAIN am_data'
  /\ granule_idx' = granule_idx + 1
  /\ UNCHANGED <<evars, xvars, chunk_size, horizon, granule_pool, processors, ppc, runs, login,
                 start_date, end_date, current_date, handled, temp_files, n_granules,
                 pm_data, pm_grid, station_idx, daily_data, smap_features, replaced>>

\* one iteration of the granule loop for a granule classified as PM; the
\* file is unlinked in the finally clause
GranulePM ==
  /\ ppc = "day"
  /\ granule_idx <= n_granules
  /\ \E readable \in BOOLEAN, ds \in granule_pool :
       /\ pm_data' = _process_granule(readable, ds, chunk_size, FALSE)
       /\ pm_grid' = IF readable THEN ds ELSE None
  /\ yielded' = yielded \cup DOMAIN pm_data'
  /\ granule_idx' = granule_idx + 1
  /\ UNCHANGED <<evars, xvars, chunk_size, horizon, granule_pool, processors, ppc, runs, login,
                 start_date, end_date, current_date, handled, temp_files, n_granules,
                 am_data, am_grid, station_idx, daily_data, smap_features, replaced>>

station_am(k) == IF Truthy(am_data) THEN DictGet(am_data, Stations[k].id) ELSE None
station_pm(k) == IF Truthy(pm_data) THEN DictGet(pm_data, Stations[k].id) ELSE None

\* one iteration of the combine loop of _process_daily_granules
CombineStation ==
  /\ ppc = "day"
  /\ LoopExhausted(granule_idx, n_granules)
  /\ station_idx <= Len(Stations)
  /\ LET combined_data == _combine_am_pm_data(Timestamp(current_date), Stations[station_idx].id,
                                              station_am(station_idx), station_pm(station_idx))
     IN daily_data' =
          IF (station_am(station_idx) # None \/ station_pm(station_idx) # None) /\ combined_data # None
          THEN DictSet(daily_data, Stations[station_idx].id, combined_data)
          ELSE daily_data
  /\ station_idx' = station_idx + 1
  /\ UNCHANGED <<evars, xvars, chunk_size, horizon, granule_pool, processors, ppc, runs, login,
                 start_date, end_date, current_date, handled, temp_files, n_granules,
                 granule_idx, am_data, pm_data, am_grid, pm_grid, yielded,
                 smap_features, replaced>>

\* _process_daily_granules returns; process_data saves daily_data if it is
\* not empty (saved = FALSE: sqlite raises, the transaction is rolled back)
\* and goes on to the next day
SaveDay ==
  /\ ppc = "day"
  /\ LoopExhausted(granule_idx, n_granules)
  /\ station_idx > Len(Stations)
  /\ \E saved \in BOOLEAN :
       IF Truthy(daily_data) /\ saved
       THEN /\ smap_features' = InsertAll(smap_features, DictValues(daily_data))
            /\ replaced' = (replaced \/ \E r \in smap_features, d \in DictValues(daily_data) :
                                          SameKey(r, d) /\ r # d)
       ELSE UNCHANGED <<smap_features, replaced>>
  /\ handled' = Append(handled, current_date)
  /\ current_date' = current_date + 1
  /\ ppc' = "loop"
  /\ UNCHANGED <<evars, xvars, chunk_size, horizon, granule_pool, processors, runs, login, start_date,
                 end_date, temp_files, n_granules, granule_idx, am_data, pm_data,
                 am_grid, pm_grid, yielded, station_idx, daily_data>>

\* the extraction variables while the pipeline runs
XIdle ==
  /\ datasets = Uniform(1, RInt(FillValue), 0)
  /\ target = 1
  /\ xpc = "done"
  /\ i = 0
  /\ weighted_sum = Zero
  /\ weight_sum = Zero
  /\ quality_sum = Zero
  /\ single_result = NoResult
  /\ chunked_result = NoResult
  /\ dispatched = [path |-> "none", result |-> NoResult]
  /\ examined = <<>>

\* ------------------------------------------------------- the normalizer
\* Values _normalize_soil_moisture is called with: multiples of 0.1 on both
\* sides of the domain [0, 0.5], the fill value and NaN.
NormMax == 8
NormInputs == {Rat(n, 10) : n \in (-NormMax)..NormMax} \cup {RInt(FillValue), NaN}

NIdle ==
  /\ norm_args = <<>>
  /\ norm_out = <<>>

NInit ==
  /\ norm_args \in [1..2 -> NormInputs]
  /\ norm_out = <<>>

\* one call of _normalize_soil_moisture
Normalize ==
  /\ Len(norm_out) < Len(norm_args)
  /\ norm_out' = Append(norm_out, _normalize_soil_moisture(norm_args[Len(norm_out) + 1]))
  /\ UNCHANGED <<norm_args, xvars, chunk_size, pvars>>
  /\ UNCHANGED <<tvars, gvars, svars, qvars, cvars, dvars, bvars>>

\* ------------------------------------------------ _get_elevation_and_slope
\* A candidate tile as the call for one station sees it:
\*   fetch    "ok", "none" (download returns nothing) or "raises" (download
\*            or the unzipping raises, outside the try block)
\*   opens    whether rasterio.open and the reads succeed
\*   height, width, band   the raster (band[r][c], 0-based as in the code)
\*   row, col              src.index(lon, lat) of the station
\* The slope is kept as its squared tangent dx*dx + dy*dy: the code returns
\* np.degrees(np.arctan(np.sqrt(dx*dx + dy*dy))), a strictly increasing
\* function of it that is 0 at 0.
MaxTiles == 2          \* candidate tiles of one call
MaxRaised == 1         \* cells of a raster standing above the others
CellSize == 30         \* cell_size: SRTM resolution in meters

TileCells == (0..2) \X (0..2)

\* rasters of 3 x 3 cells at 100 m with at most MaxRaised cells at 130 m
Rasters ==
  { [r \in 0..2 |-> [c \in 0..2 |-> IF <<r, c>> \in raised THEN 130 ELSE 100]] :
      raised \in {S \in SUBSET TileCells : Cardinality(S) <= MaxRaised} }

\* a raster rising to the east and to the south
Ramp == [r \in 0..2 |-> [c \in 0..2 |-> 100 + 30 * c + 60 * r]]

Tile(fetch, opens, row, col, band) ==
  [fetch |-> fetch, opens |-> opens, height |-> 3, width |-> 3,
   row |-> row, col |-> col, band |-> band]

\* the station in the middle of the tile
FullTiles == {Tile("ok", TRUE, 1, 1, band) : band \in Rasters}

\* the station on the first or last row or column, or outside the tile
EdgePositions == (TileCells \ {<<1, 1>>}) \cup {<<-1, 1>>, <<1, 3>>}
EdgeTiles == {Tile("ok", TRUE, rc[1], rc[2], Ramp) : rc \in EdgePositions}

FailingTiles == { Tile("none", TRUE, 1, 1, Ramp), Tile("raises", TRUE, 1, 1, Ramp),
                  Tile("ok", FALSE, 1, 1, Ramp) }

Tiles == FullTiles \cup EdgeTiles \cup FailingTiles

\* "Make sure we have room for a 3x3 window"
NoRoom(t) ==
  t.row < 1 \/ t.row >= t.height - 1 \/ t.col < 1 \/ t.col >= t.width - 1

\* src.read(1, window=Window(col-1, row-1, 3, 3)): the cells of the window
\* that lie inside the raster
WindowCells(t) ==
  { rc \in TileCells : /\ t.row - 1 + rc[1] \in 0..(t.height - 1)
                        /\ t.col - 1 + rc[2] \in 0..(t.width - 1) }

\* data[r, c] of a complete window
Data(t) == [r \in 0..2 |-> [c \in 0..2 |-> t.band[t.row - 1 + r][t.col - 1 + c]]]

\* mutant: the east and west columns summed without the weight 2 of the
\* middle row
DxUnweighted(data) ==
  Rat((data[0][2] + data[1][2] + data[2][2])
        - (data[0][0] + data[1][0] + data[2][0]), 8 * CellSize)

Dx(data) ==
  Rat((data[0][2] + 2 * data[1][2] + data[2][2])
        - (data[0][0] + 2 * data[1][0] + data[2][0]), 8 * CellSize)

Dy(data) ==
  Rat((data[2][0] + 2 * data[2][1] + data[2][2])
        - (data[0][0] + 2 * data[0][1] + data[0][2]), 8 * CellSize)

Slope(data) == RAdd(RMul(Dx(data), Dx(data)), RMul(Dy(data), Dy(data)))

DefaultTerrain == [elevation |-> Zero, slope |-> Zero]

\* how one iteration of the loop ends
Continue == [kind |-> "continue", elevation |-> NaN, slope |-> NaN]
Raise == [kind |-> "raise", elevation |-> NaN, slope |-> NaN]
Return(elevation, slope) == [kind |-> "return", elevation |-> elevation, slope |-> slope]

\* mutant: a tile without room for the window ends the search with the
\* default instead of passing to the next tile
TileOutcomeGiveUpOnEdge(t) ==
  IF t.fetch = "none" THEN Continue
  ELSE IF t.fetch = "raises" THEN Raise
  ELSE IF ~t.opens THEN Continue
  ELSE IF NoRoom(t) THEN Return(Zero, Zero)
  ELSE IF Cardinality(WindowCells(t)) # 9 THEN Continue
  ELSE Return(RInt(Data(t)[1][1]), Slope(Data(t)))

\* The body of the for loop for one granule: it ends with continue, with an
\* exception that leaves the method, or with the return of a pair.
TileOutcome(t) ==
  IF t.fetch = "none" THEN Continue
  ELSE IF t.fetch = "raises" THEN Raise
  ELSE IF ~t.opens THEN Continue
  ELSE IF NoRoom(t) THEN Continue
  ELSE IF Cardinality(WindowCells(t)) # 9 THEN Continue
  ELSE Return(RInt(Data(t)[1][1]), Slope(Data(t)))

NoTerrain == [elevation |-> NaN, slope |-> NaN]

TIdle ==
  /\ tiles = <<>>
  /\ tile_idx = 1
  /\ terrain = NoTerrain
  /\ tpc = "returned"

TInit ==
  /\ tiles \in UNION {[1..n -> Tiles] : n \in 0..MaxTiles}
  /\ tile_idx = 1
  /\ terrain = NoTerrain
  /\ tpc = "loop"

\* one iteration of the for loop over the granules
TerrainTile ==
  /\ tpc = "loop"
  /\ tile_idx <= Len(tiles)
  /\ LET outcome == TileOutcome(tiles[tile_idx])
     IN IF outcome.kind = "continue"
          THEN tile_idx' = tile_idx + 1 /\ UNCHANGED <<terrain, tpc>>
        ELSE IF outcome.kind = "raise"
          THEN tpc' = "raised" /\ UNCHANGED <<terrain, tile_idx>>
        ELSE /\ terrain' = [elevation |-> outcome.elevation, slope |-> outcome.slope]
             /\ tpc' = "returned"
             /\ UNCHANGED tile_idx
  /\ UNCHANGED <<tiles, xvars, chunk_size, pvars>>
  /\ UNCHANGED <<nvars, gvars, svars, qvars, cvars, dvars, bvars>>

\* the loop ends without a return: "Default values if all processing fails"
TerrainDefault ==
  /\ tpc = "loop"
  /\ tile_idx > Len(tiles)
  /\ terrain' = DefaultTerrain
  /\ tpc' = "returned"
  /\ UNCHANGED <<tiles, tile_idx, xvars, chunk_size, pvars>>
  /\ UNCHANGED <<nvars, gvars, svars, qvars, cvars, dvars, bvars>>

\* ------------------------------------ _process_granule, station by station
\* the arrays of ds with latitude and longitude one cell longer than
\* soil_moisture and retrieval_qual_flag
Lengthen(ds) ==
  [ds EXCEPT !.latitude = Append(ds.latitude, 0),
             !.longitude = Append(ds.longitude, CellLon[Size(ds) + 1])]

\* what a granule file can hold: arrays of one shape, or coordinate arrays
\* longer than the value arrays
GranuleInputs == Grids(GranuleCells) \cup {Lengthen(ds) : ds \in Grids(GranuleCells)}

\* The single pass combines whole arrays: distances has the shape of
\* latitude and longitude, valid_data the shape of sm, and np.logical_and
\* of the two raises ValueError when the shapes differ. The chunked path
\* slices every array with the same indices below sm.size and does not
\* notice longer coordinate arrays.
SingleShapeError(ds) ==
  Len(ds.latitude) # Size(ds) \/ Len(ds.longitude) # Size(ds)

\* the lists self.stations can be
StationOrders ==
  { o \in [1..Len(Stations) -> 1..Len(Stations)] :
      \A a, b \in 1..Len(Stations) : o[a] = o[b] => a = b }

GIdle ==
  /\ g_order = <<>>
  /\ g_idx = 1
  /\ g_data = EmptyDict
  /\ g_logged = {}
  /\ gpc = "returned"

GInit ==
  /\ datasets \in GranuleInputs
  /\ chunk_size \in {SmallChunk, DefaultChunk}
  /\ target = 1
  /\ xpc = "done"
  /\ i = 0
  /\ weighted_sum = Zero
  /\ weight_sum = Zero
  /\ quality_sum = Zero
  /\ single_result = NoResult
  /\ chunked_result = NoResult
  /\ dispatched = [path |-> "none", result |-> NoResult]
  /\ examined = <<>>
  /\ g_order \in StationOrders
  /\ g_idx = 1
  /\ g_data = EmptyDict
  /\ g_logged = {}
  /\ gpc = "stations"

\* one iteration of the station loop of _process_granule (an AM granule):
\* an exception of _get_station_data is caught and logged by the loop
GStation ==
  /\ gpc = "stations"
  /\ g_idx <= Len(g_order)
  /\ LET k == g_order[g_idx]
         chunked == TakesChunkedPath(datasets, chunk_size)
         result == _get_station_data(datasets, k, chunk_size)
         acc == ChunkLoop(ZeroAcc, datasets, k, chunk_size, 0)
     IN IF ~chunked /\ SingleShapeError(datasets)
        THEN /\ g_logged' = g_logged \cup {Stations[k].id}
             /\ UNCHANGED <<g_data, weighted_sum, weight_sum, quality_sum, examined>>
        ELSE /\ g_data' = IF IsNaN(result.value) THEN g_data
                          ELSE DictSet(g_data, Stations[k].id,
                                       [soil_moisture |-> result.value,
                                        quality_flag |-> result.quality,
                                        is_am |-> TRUE])
             /\ weighted_sum' = IF chunked THEN acc.weighted_sum ELSE weighted_sum
             /\ weight_sum' = IF chunked THEN acc.weight_sum ELSE weight_sum
             /\ quality_sum' = IF chunked THEN acc.quality_sum ELSE quality_sum
             /\ examined' = IF chunked THEN SliceLoop(<<>>, datasets, chunk_size, 0)
                            ELSE examined
             /\ UNCHANGED g_logged
  /\ g_idx' = g_idx + 1
  /\ UNCHANGED <<datasets, target, chunk_size, xpc, i, single_result, chunked_result,
                 dispatched, g_order, gpc, pvars, nvars, tvars, svars, qvars, cvars, dvars, bvars>>

\* the station loop is over: return data
GReturn ==
  /\ gpc = "stations"
  /\ g_idx > Len(g_order)
  /\ gpc' = "returned"
  /\ UNCHANGED <<xvars, chunk_size, g_order, g_idx, g_data, g_logged, pvars, nvars, tvars, svars, qvars, cvars, dvars, bvars>>

\* ------------------------------------------------ the table stations
MaxOps == 4            \* store_stations calls and StaticProcessor runs

StationIds == {Stations[k].id : k \in 1..Len(Stations)}

\* _get_elevation_and_slope as a whole: the loop over the tiles ts from j on
RECURSIVE TerrainLoop(_, _)
TerrainLoop(ts, j) ==
  IF j > Len(ts) THEN Return(Zero, Zero)
  ELSE LET outcome == TileOutcome(ts[j])
       IN IF outcome.kind = "continue" THEN TerrainLoop(ts, j + 1) ELSE outcome

_get_elevation_and_slope(ts) == TerrainLoop(ts, 1)

\* the tiles the SRTM search can give for one station: none with a full
\* window, level ground, sloping ground behind a tile without room, and a
\* download that raises
StationTileLists ==
  { <<Tile("ok", TRUE, 0, 1, Ramp)>>,
    <<Tile("ok", TRUE, 1, 1, [r \in 0..2 |-> [c \in 0..2 |-> 100]])>>,
    <<Tile("ok", TRUE, 0, 1, Ramp), Tile("ok", TRUE, 1, 1, Ramp)>>,
    <<Tile("raises", TRUE, 1, 1, Ramp)>> }

\* _process_elevation: the dict elevation_data for the tile lists ts (one
\* per station); a station whose call raises gets no entry
RECURSIVE ElevationLoop(_, _, _)
ElevationLoop(elevation_data, ts, k) ==
  IF k > Len(Stations) THEN elevation_data
  ELSE LET outcome == _get_elevation_and_slope(ts[k])
       IN ElevationLoop(IF outcome.kind = "raise" THEN elevation_data
                        ELSE DictSet(elevation_data, Stations[k].id,
                                     [elevation |-> outcome.elevation,
                                      slope |-> outcome.slope]),
                        ts, k + 1)

_process_elevation(found, ts) ==
  IF found THEN ElevationLoop(EmptyDict, ts, 1) ELSE EmptyDict

\* the row values of the UPDATE of _save_combined_data for station id
UpdatedTerrain(elevation_data, id) ==
  IF id \in DOMAIN elevation_data THEN elevation_data[id] ELSE DefaultTerrain

SIdle ==
  /\ stations_tbl = EmptyDict
  /\ ops = 0
  /\ first_written = EmptyDict

\* INSERT OR REPLACE INTO stations (...) VALUES (..., 0.0, 0.0, ...)
InsertOrReplaceStation(table, id) == DictSet(table, id, DefaultTerrain)

RECURSIVE StoreLoop(_, _)
StoreLoop(table, ids) ==
  IF ids = {} THEN table
  ELSE LET id == CHOOSE x \in ids : TRUE
       IN StoreLoop(InsertOrReplaceStation(table, id), ids \ {id})

\* store_stations(stations, db_path): failed is the set of stations whose
\* INSERT raises and is logged
StoreStations ==
  /\ ops < MaxOps
  /\ \E failed \in SUBSET StationIds :
       stations_tbl' = StoreLoop(stations_tbl, StationIds \ failed)
  /\ ops' = ops + 1
  /\ UNCHANGED <<first_written, xvars, chunk_size, pvars, nvars, tvars, gvars, qvars, cvars, dvars, bvars>>

\* StaticProcessor(stations): _process_elevation, _process_soil_properties
\* (soil = whether it found granules, and so has an entry for every
\* station) and _save_combined_data (saved = FALSE: sqlite raises and the
\* transaction is rolled back)
StaticRun ==
  /\ ops < MaxOps
  /\ \E found \in BOOLEAN, soil \in BOOLEAN, saved \in BOOLEAN,
        ts \in [1..Len(Stations) -> StationTileLists] :
       LET elevation_data == _process_elevation(found, ts)
           ids == DOMAIN elevation_data \cup (IF soil THEN StationIds ELSE {})
           updated == [id \in DOMAIN stations_tbl |->
                         IF id \in ids THEN UpdatedTerrain(elevation_data, id)
                         ELSE stations_tbl[id]]
           sampled == (DOMAIN elevation_data \cap DOMAIN stations_tbl)
                        \ DOMAIN first_written
       IN IF saved
          THEN /\ stations_tbl' = updated
               /\ first_written' =
                    [id \in DOMAIN first_written \cup sampled |->
                       IF id \in sampled THEN elevation_data[id] ELSE first_written[id]]
          ELSE UNCHANGED <<stations_tbl, first_written>>
  /\ ops' = ops + 1
  /\ UNCHANGED <<xvars, chunk_size, pvars, nvars, tvars, gvars, qvars, cvars, dvars, bvars>>

\* ------------------------------------------------- search_vegdri_dataset
\* search_attempts; a parameter that is not passed is "-", the temporal
\* range is "2000-01-01..today"
Params(short_name, keyword, cloud_hosted, temporal) ==
  [short_name |-> short_name, keyword |-> keyword,
   cloud_hosted |-> cloud_hosted, temporal |-> temporal]

search_attempts ==
  << Params("VegDRI", "-", "True", "-"),
     Params("-", "Vegetation Drought Response Index", "True", "-"),
     Params("VegDRI", "-", "-", "-"),
     Params("-", "Vegetation Drought Response Index", "-", "-"),
     Params("VegDRI", "-", "-", "2000-01-01..today") >>

\* What a search_datasets call can do:
\*   "results"     return a non-empty list of items with the attributes
\*                 short_name, version, time_start and time_end
\*   "bare"        return a non-empty list with an item that lacks one of
\*                 these attributes, so that logging it raises
\*   "empty"       return []
\*   "error"       raise
Responses == {"results", "bare", "empty", "error"}

\* the list search_datasets returned at attempt k
ResultsOf(k) == [from_attempt |-> k]
NoResults == [from_attempt |-> 0]

QIdle ==
  /\ responses = <<>>
  /\ attempt = 1
  /\ calls = <<>>
  /\ search_result = NoResults
  /\ qpc = "returned"

QInit ==
  /\ responses \in [1..Len(search_attempts) -> Responses]
  /\ attempt = 1
  /\ calls = <<>>
  /\ search_result = NoResults
  /\ qpc = "searching"

\* one iteration of the for loop that ends with return results
SearchFound ==
  /\ qpc = "searching"
  /\ attempt <= Len(search_attempts)
  /\ responses[attempt] = "results"
  /\ calls' = Append(calls, search_attempts[attempt])
  /\ search_result' = ResultsOf(attempt)
  /\ qpc' = "returned"
  /\ UNCHANGED <<responses, attempt, xvars, chunk_size, pvars, nvars, tvars, gvars, svars, cvars, dvars, bvars>>

\* one iteration of the for loop that goes on to the next attempt: the
\* list is empty, or the call or the logging of the items raised and the
\* except clause logged it
SearchNext ==
  /\ qpc = "searching"
  /\ attempt <= Len(search_attempts)
  /\ responses[attempt] # "results"
  /\ calls' = Append(calls, search_attempts[attempt])
  /\ attempt' = attempt + 1
  /\ UNCHANGED <<responses, search_result, qpc, xvars, chunk_size, pvars, nvars, tvars,
                 gvars, svars, cvars, dvars, bvars>>

\* "All search attempts for VegDRI dataset failed.": return []
SearchFailed ==
  /\ qpc = "searching"
  /\ attempt > Len(search_attempts)
  /\ search_result' = NoResults
  /\ qpc' = "returned"
  /\ UNCHANGED <<responses, attempt, calls, xvars, chunk_size, pvars, nvars, tvars,
                 gvars, svars, cvars, dvars, bvars>>

\* ------------------------------------------------------ openflow_cron.main
\* Days are numbered from 1. A granule time ("%Y-%m-%dT%H:%M:%S.%fZ") is
\* <<day, half>>, half 0 for a time in the morning and 1 for one in the
\* afternoon; a date string ("%Y-%m-%d") is <<day>>; None where a string is
\* expected is <<>>; a datetime is a number of half days.
MaxSpan == 3           \* the granule times lie in the days 1..MaxSpan

Absent == <<>>
Times == {<<d, h>> : d \in 1..MaxSpan, h \in {0, 1}}

\* datetime.strptime(s, "%Y-%m-%dT%H:%M:%S.%fZ")
ParseTime(s) == 2 * s[1] + s[2]
\* .strftime("%Y-%m-%d")
FormatDay(t) == <<t \div 2>>
\* datetime.strptime(s, "%Y-%m-%d"): midnight of the day
ParseDay(s) == 2 * s[1]

Min(S) == CHOOSE x \in S : \A y \in S : x <= y
Max(S) == CHOOSE x \in S : \A y \in S : y <= x

\* the entries of a non-empty list of results: time_start (a morning) and
\* time_end (an afternoon), each a granule time or None
ResultEntries ==
  { [time_start |-> s, time_end |-> e] :
      s \in {Absent} \cup {t \in Times : t[2] = 0},
      e \in {Absent} \cup {t \in Times : t[2] = 1} }
Ordered(r) ==
  (r.time_start # Absent /\ r.time_end # Absent) => ParseTime(r.time_start) <= ParseTime(r.time_end)
ResultLists ==
  { rs \in {<<a>> : a \in ResultEntries} \cup {<<a, b>> : a \in ResultEntries, b \in ResultEntries} :
      \A k \in 1..Len(rs) : Ordered(rs[k]) }

\* mutant: an empty list of results taken for the first day alone
find_date_range_default(results) ==
  IF results = <<>> THEN <<<<1>>, <<1>>>>
  ELSE LET dated == {k \in 1..Len(results) :
                       results[k].time_start # Absent /\ results[k].time_end # Absent}
           start_dates == {ParseTime(results[k].time_start) : k \in dated}
           end_dates == {ParseTime(results[k].time_end) : k \in dated}
       IN IF dated # {} THEN <<FormatDay(Min(start_dates)), FormatDay(Max(end_dates))>>
          ELSE <<Absent, Absent>>

find_date_range(results) ==
  IF results = <<>> THEN <<Absent, Absent>>
  ELSE LET dated == {k \in 1..Len(results) :
                       results[k].time_start # Absent /\ results[k].time_end # Absent}
           start_dates == {ParseTime(results[k].time_start) : k \in dated}
           end_dates == {ParseTime(results[k].time_end) : k \in dated}
       IN IF dated # {} THEN <<FormatDay(Min(start_dates)), FormatDay(Max(end_dates))>>
          ELSE <<Absent, Absent>>

\* authenticate(): what it does when earthaccess.login does outcome
authenticate(outcome) ==
  [login |-> outcome, result |-> IF Reraised(outcome) THEN "raised" ELSE "returned"]

NoAuth == [login |-> "none", result |-> "none"]

\* the while loop of main that fills the queue, from current_date on
RECURSIVE EnqueueLoop(_, _, _)
EnqueueLoop(q, current, last) ==
  IF current <= last THEN EnqueueLoop(Append(q, FormatDay(current)), current + 2, last)
  ELSE q

CRest ==
  /\ auth = NoAuth
  /\ metadata = Absent
  /\ queue = <<>>
  /\ enqueued = <<>>
  /\ total_days = 0
  /\ dequeued = <<>>
  /\ completed = <<>>
  /\ tasks_done = 0
  /\ cron_files = {}
  /\ main_error = FALSE

CIdle == CRest /\ cpc = "idle"

\* a direct call of authenticate()
Authenticate ==
  /\ cpc = "idle"
  /\ \E outcome \in {"ok", "raises"} : auth' = authenticate(outcome)
  /\ UNCHANGED <<cpc, metadata, queue, enqueued, total_days, dequeued, completed, tasks_done,
                 cron_files, main_error, xvars, chunk_size, pvars, nvars, tvars, gvars,
                 svars, qvars, dvars, bvars>>

\* main: authenticate(), and the call of search_vegdri_dataset when it
\* returned
MainAuthenticate ==
  /\ cpc = "main"
  /\ \E outcome \in {"ok", "raises"} :
       /\ auth' = authenticate(outcome)
       /\ IF auth'.result = "raised"
          THEN /\ main_error' = TRUE
               /\ cpc' = "ended"
               /\ UNCHANGED qvars
          ELSE /\ responses' \in [1..Len(search_attempts) -> Responses]
               /\ attempt' = 1
               /\ calls' = <<>>
               /\ search_result' = NoResults
               /\ qpc' = "searching"
               /\ cpc' = "search"
               /\ UNCHANGED main_error
  /\ UNCHANGED <<metadata, queue, enqueued, total_days, dequeued, completed, tasks_done,
                 cron_files, xvars, chunk_size, pvars, nvars, tvars, gvars, svars,
                 dvars, bvars>>

\* main from the return of search_vegdri_dataset to the call of
\* process_queue (db_ok = FALSE: update_vegdri_metadata raises)
MainFindRange ==
  /\ cpc = "search"
  /\ qpc = "returned"
  /\ \E results \in IF search_result = NoResults THEN {<<>>} ELSE ResultLists,
        db_ok \in BOOLEAN :
       LET range == find_date_range(results)
           start == range[1]
           end == range[2]
       IN IF start # Absent /\ end # Absent
          THEN IF db_ok
               THEN /\ metadata' = <<start, end>>
                    /\ queue' = EnqueueLoop(<<>>, ParseDay(start), ParseDay(end))
                    /\ enqueued' = queue'
                    /\ total_days' = (ParseDay(end) - ParseDay(start)) \div 2 + 1
                    /\ cpc' = "queue"
                    /\ UNCHANGED main_error
               ELSE /\ main_error' = TRUE
                    /\ cpc' = "ended"
                    /\ UNCHANGED <<metadata, queue, enqueued, total_days>>
          ELSE /\ cpc' = "ended"
               /\ UNCHANGED <<metadata, queue, enqueued, total_days, main_error>>
  /\ UNCHANGED <<auth, dequeued, completed, tasks_done, cron_files, xvars, chunk_size,
                 pvars, nvars, tvars, gvars, svars, qvars, dvars, bvars>>

\* one iteration of the while loop of process_queue: process_date for the
\* date at the head of the queue finds no granule, stores the processed
\* data, or raises; its finally clause unlinks the temporary file
ProcessDate ==
  /\ cpc = "queue"
  /\ queue # <<>>
  /\ LET date == Head(queue)
     IN /\ queue' = Tail(queue)
        /\ dequeued' = Append(dequeued, date)
        /\ cron_files' = (cron_files \cup {date}) \ {date}
        /\ \E outcome \in {"none", "stored", "raises"} :
             IF outcome = "raises"
             THEN /\ main_error' = TRUE
                  /\ cpc' = "ended"
                  /\ UNCHANGED <<completed, tasks_done>>
             ELSE /\ completed' = Append(completed, date)
                  /\ tasks_done' = tasks_done + 1
                  /\ UNCHANGED <<main_error, cpc>>
  /\ UNCHANGED <<auth, metadata, enqueued, total_days, xvars, chunk_size, pvars, nvars,
                 tvars, gvars, svars, qvars, dvars, bvars>>

\* process_queue: the queue is empty; main returns
QueueDone ==
  /\ cpc = "queue"
  /\ queue = <<>>
  /\ cpc' = "ended"
  /\ UNCHANGED <<auth, metadata, queue, enqueued, total_days, dequeued, completed,
                 tasks_done, cron_files, main_error, xvars, chunk_size, pvars, nvars,
                 tvars, gvars, svars, qvars, dvars, bvars>>

\* ----------------------------------- the great-circle distance, by itself
\* The distance code of the two extraction paths (the same statements,
\* once on the whole arrays and once on a chunk) on points that are far
\* apart. Latitudes and longitudes are whole degrees, multiples of 60, for
\* which every sine and cosine in the formula is rational. A distance
\* 2 * R * arcsin(sqrt(c)) is written as c, which grows with it, and NaN
\* where the arcsine is undefined. Haversine above is the same formula for
\* points on the equator a few kilometres apart.
Latitudes == {-60, 0, 60}
Longitudes == {-180, -120, -60, 0, 60, 120, 180}
Points == [latitude : Latitudes, longitude : Longitudes]

\* np.sin(np.deg2rad(deg) / 2)**2 for deg = 0, 60, ..., 360
SinSquaredHalf(deg) ==
  LET k == (deg \div 60) % 6
  IN IF k = 0 THEN Zero
     ELSE IF k \in {1, 5} THEN Rat(1, 4)
     ELSE IF k \in {2, 4} THEN Rat(3, 4)
     ELSE One

\* np.cos(np.deg2rad(lat)) for lat = -60, 0, 60
Cos(lat) == IF lat = 0 THEN One ELSE Rat(1, 2)

\* a floating-point result: the exact one, or the exact one less or more
\* one part in a thousand (r = -1, 0, 1)
Rounded(x, r) == RMul(x, Rat(1000 + r, 1000))

\* mutant: a + b handed to the arcsine as it is
Unclamped(x) == x

\* np.clip(a + b, 0, 1)
Clamp(x) == RMax(Zero, RMin(One, x))

\* np.arcsin(np.sqrt(c)), NaN outside [0, 1]
ArcsinSqrt(c) == IF RLeq(Zero, c) /\ RLeq(c, One) THEN c ELSE NaN

\* dlat .. distances of _get_station_data and of a chunk, for one cell
GreatCircle(lat1, lon1, lat2, lon2, r) ==
  LET dlat == Abs(lat2 - lat1)
      dlon == Abs(lon2 - lon1)
      a == SinSquaredHalf(dlat)
      b == RMul(RMul(Cos(lat1), Cos(lat2)), SinSquaredHalf(dlon))
      c == Clamp(Rounded(RAdd(a, b), r))
  IN ArcsinSqrt(c)

NoDistance == [num |-> -1, den |-> 1]

DIdle ==
  /\ station_pt = [latitude |-> 0, longitude |-> 0]
  /\ cell_pt = [latitude |-> 0, longitude |-> 0]
  /\ rounding = 0
  /\ d_single = NoDistance
  /\ d_chunked = NoDistance
  /\ d_reverse = NoDistance
  /\ d_self = NoDistance

DInit ==
  /\ station_pt \in Points
  /\ cell_pt \in Points
  /\ rounding \in {-1, 0, 1}
  /\ d_single = NoDistance
  /\ d_chunked = NoDistance
  /\ d_reverse = NoDistance
  /\ d_self = NoDistance

\* _get_station_data: the distance from the station to the cell
DistanceSingle ==
  /\ d_single = NoDistance
  /\ d_single' = GreatCircle(station_pt.latitude, station_pt.longitude,
                             cell_pt.latitude, cell_pt.longitude, rounding)
  /\ UNCHANGED <<station_pt, cell_pt, rounding, d_chunked, d_reverse, d_self,
                 xvars, chunk_size, pvars, nvars, tvars, gvars, svars, qvars, cvars, bvars>>

\* _get_station_data_chunked: the same distance, the cell being in a chunk
DistanceChunked ==
  /\ d_chunked = NoDistance
  /\ d_chunked' = GreatCircle(station_pt.latitude, station_pt.longitude,
                              cell_pt.latitude, cell_pt.longitude, rounding)
  /\ UNCHANGED <<station_pt, cell_pt, rounding, d_single, d_reverse, d_self,
                 xvars, chunk_size, pvars, nvars, tvars, gvars, svars, qvars, cvars, bvars>>

\* the distance from a station at the cell to a cell at the station
DistanceReverse ==
  /\ d_reverse = NoDistance
  /\ d_reverse' = GreatCircle(cell_pt.latitude, cell_pt.longitude,
                              station_pt.latitude, station_pt.longitude, rounding)
  /\ UNCHANGED <<station_pt, cell_pt, rounding, d_single, d_chunked, d_self,
                 xvars, chunk_size, pvars, nvars, tvars, gvars, svars, qvars, cvars, bvars>>

\* the distance from the station to a cell at the station
DistanceSelf ==
  /\ d_self = NoDistance
  /\ d_self' = GreatCircle(station_pt.latitude, station_pt.longitude,
                           station_pt.latitude, station_pt.longitude, rounding)
  /\ UNCHANGED <<station_pt, cell_pt, rounding, d_single, d_chunked, d_reverse,
                 xvars, chunk_size, pvars, nvars, tvars, gvars, svars, qvars, cvars, bvars>>

\* ----------------------------------------------- init_dbs.setup_database
\* The database file: whether it exists, and its tables, a dict table name
\* -> [columns, rows] (the names of the columns and the number of rows).
MaxSetups == 2         \* calls of setup_database

expected_tables ==
  [t \in {"stations", "smap_features", "vegetation_features", "snow_features"} |->
     IF t = "stations"
       THEN {"id", "source", "site_id", "latitude", "longitude", "created_at",
             "elevation", "slope", "soil_type", "soil_texture", "organic_carbon",
             "clay_content", "sand_content"}
     ELSE IF t = "smap_features"
       THEN {"timestamp", "station_id", "soil_moisture", "quality_flag", "trend3", "source"}
     ELSE IF t = "vegetation_features"
       THEN {"timestamp", "station_id", "ndvi", "quality_score"}
     ELSE {"timestamp", "station_id", "snow_cover", "quality_score"}]

\* the columns of the CREATE TABLE statements
created_tables ==
  [t \in {"stations", "smap_features", "vegetation_features", "snow_features"} |->
     IF t = "stations"
       THEN {"id", "source", "site_id", "latitude", "longitude", "created_at",
             "elevation", "slope", "soil_type", "soil_texture", "organic_carbon",
             "clay_content", "sand_content"}
     ELSE IF t = "smap_features"
       THEN {"timestamp", "station_id", "soil_moisture", "quality_flag", "trend3", "source"}
     ELSE IF t = "vegetation_features"
       THEN {"timestamp", "station_id", "ndvi", "quality_score"}
     ELSE {"timestamp", "station_id", "snow_cover", "quality_score"}]

NoFile == [exists |-> FALSE, tables |-> EmptyDict]
File(tables) == [exists |-> TRUE, tables |-> tables]

\* the shapes a table of the file can have: as created, with a column more,
\* or with the column quality_score, quality_flag or slope missing
TableShapes(t) ==
  { [columns |-> cols, rows |-> n] :
      cols \in {expected_tables[t], expected_tables[t] \cup {"extra"},
               expected_tables[t] \ {"quality_score", "quality_flag", "slope"}},
      n \in {0, 1} }

Legacy == [columns |-> {"station_id", "elevation"}, rows |-> 1]

\* the database files setup_database can meet
RECURSIVE Databases(_)
Databases(names) ==
  IF names = {} THEN {EmptyDict, [t \in {"static_features"} |-> Legacy]}
  ELSE LET t == CHOOSE n \in names : TRUE
           rest == Databases(names \ {t})
       IN rest \cup {DictSet(d, t, shape) : d \in rest, shape \in TableShapes(t)}

check_database_structure(conn) ==
  \A t \in DOMAIN expected_tables :
    /\ t \in DOMAIN conn
    /\ expected_tables[t] \ conn[t].columns = {}

\* DROP TABLE IF EXISTS, for each name of names
DropTables(conn, names) == [t \in DOMAIN conn \ names |-> conn[t]]

\* CREATE TABLE IF NOT EXISTS, for each table of created_tables
RECURSIVE CreateTables(_, _)
CreateTables(conn, names) ==
  IF names = {} THEN conn
  ELSE LET t == CHOOSE n \in names : TRUE
       IN CreateTables(IF t \in DOMAIN conn THEN conn
                       ELSE DictSet(conn, t, [columns |-> created_tables[t], rows |-> 0]),
                       names \ {t})

dropped_tables ==
  {"smap_features", "vegetation_features", "snow_features", "static_features", "stations"}

\* mutant: an existing database is rebuilt without looking at its structure
setup_database_rebuilding(file) ==
  IF ~file.exists THEN File(CreateTables(EmptyDict, DOMAIN created_tables))
  ELSE File(CreateTables(DropTables(file.tables, dropped_tables), DOMAIN created_tables))

\* the file after setup_database(db_path)
setup_database(file) ==
  IF ~file.exists THEN File(CreateTables(EmptyDict, DOMAIN created_tables))
  ELSE IF check_database_structure(file.tables) THEN file
  ELSE File(CreateTables(DropTables(file.tables, dropped_tables), DOMAIN created_tables))

BIdle ==
  /\ db = NoFile
  /\ db_before = NoFile
  /\ db_after = NoFile
  /\ setups = 0

BInit ==
  /\ db \in {NoFile} \cup {File(d) : d \in Databases(DOMAIN expected_tables)}
  /\ db_before = db
  /\ db_after = db
  /\ setups = 0

\* one call of setup_database
SetupDatabase ==
  /\ setups < MaxSetups
  /\ db_before' = db
  /\ db' = setup_database(db)
  /\ db_after' = db'
  /\ setups' = setups + 1
  /\ UNCHANGED <<xvars, chunk_size, pvars, nvars, tvars, gvars, svars, qvars, cvars, dvars>>

\* store_stations after setup_database: a row in the table stations
StoreRow ==
  /\ setups > 0
  /\ db.exists
  /\ "stations" \in DOMAIN db.tables
  /\ db.tables["stations"].rows = 0
  /\ db' = [db EXCEPT !.tables["stations"].rows = 1]
  /\ UNCHANGED <<db_before, db_after, setups, xvars, chunk_size, pvars, nvars, tvars, gvars, svars,
                 qvars, cvars, dvars>>

EIdle == NIdle /\ TIdle /\ GIdle /\ SIdle /\ QIdle /\ CIdle /\ DIdle /\ BIdle

Init == XIdle /\ PIdle /\ EIdle /\ chunk_size = DefaultChunk
Next == \/ Construct \/ ConstructFails \/ Finish \/ SkipDay \/ StartDay
        \/ GranuleNoFile \/ GranuleUnclassified \/ GranuleAM \/ GranulePM
        \/ CombineStation \/ SaveDay
Spec == Init /\ [][Next]_vars

\* one processor over the longest period, every granule file holding the
\* same grid
DayInit ==
  /\ XIdle /\ PRest /\ EIdle /\ chunk_size = DefaultChunk
  /\ horizon = NumDays
  /\ granule_pool = {Uniform(GranuleCells, Rat(1, 5), 0)}
  /\ processors = 1
DaySpec == DayInit /\ [][Next]_vars

\* a processor under construction goes on to its next statement
Running ==
  \/ Finish \/ SkipDay \/ StartDay
  \/ GranuleNoFile \/ GranuleUnclassified \/ GranuleAM \/ GranulePM
  \/ CombineStation \/ SaveDay
DayFairSpec == DaySpec /\ WF_vars(Running)

ExtractInit == XInit /\ PIdle /\ EIdle
ExtractNext == XSinglePass \/ XChunkStep \/ XChunkReturn \/ XDispatch
ExtractSpec == ExtractInit /\ [][ExtractNext]_vars

NormInit ==
  XIdle /\ PIdle /\ NInit /\ TIdle /\ GIdle /\ SIdle /\ QIdle /\ CIdle /\ DIdle /\ BIdle /\ chunk_size = DefaultChunk
NormNext == Normalize
NormSpec == NormInit /\ [][NormNext]_vars

TerrainInit ==
  XIdle /\ PIdle /\ NIdle /\ TInit /\ GIdle /\ SIdle /\ QIdle /\ CIdle /\ DIdle /\ BIdle /\ chunk_size = DefaultChunk
TerrainNext == TerrainTile \/ TerrainDefault
TerrainSpec == TerrainInit /\ [][TerrainNext]_vars

GranuleInit == GInit /\ PIdle /\ NIdle /\ TIdle /\ SIdle /\ QIdle /\ CIdle /\ DIdle /\ BIdle
GranuleNext == GStation \/ GReturn
GranuleSpec == GranuleInit /\ [][GranuleNext]_vars

StoreInit == Init
StoreNext == StoreStations \/ StaticRun
StoreSpec == StoreInit /\ [][StoreNext]_vars

SearchInit ==
  XIdle /\ PIdle /\ NIdle /\ TIdle /\ GIdle /\ SIdle /\ QInit /\ CIdle /\ DIdle /\ BIdle /\ chunk_size = DefaultChunk
SearchSteps == SearchFound \/ SearchNext \/ SearchFailed
SearchSpec == SearchInit /\ [][SearchSteps]_vars

\* SMAPProcessor runs and direct calls of authenticate
LoginInit == Init
LoginNext == Next \/ Authenticate
LoginSpec == LoginInit /\ [][LoginNext]_vars

\* one run of openflow_cron.main
CronInit ==
  /\ XIdle /\ PIdle /\ NIdle /\ TIdle /\ GIdle /\ SIdle /\ QIdle /\ DIdle /\ BIdle
  /\ chunk_size = DefaultChunk
  /\ CRest /\ cpc = "main"
CronNext == MainAuthenticate \/ SearchSteps \/ MainFindRange \/ ProcessDate \/ QueueDone
CronSpec == CronInit /\ [][CronNext]_vars

DistanceInit ==
  /\ XIdle /\ PIdle /\ NIdle /\ TIdle /\ GIdle /\ SIdle /\ QIdle /\ CIdle /\ BIdle
  /\ chunk_size = DefaultChunk
  /\ DInit
DistanceNext == DistanceSingle \/ DistanceChunked \/ DistanceReverse \/ DistanceSelf
DistanceSpec == DistanceInit /\ [][DistanceNext]_vars

DbInit ==
  /\ XIdle /\ PIdle /\ NIdle /\ TIdle /\ GIdle /\ SIdle /\ QIdle /\ CIdle /\ DIdle
  /\ chunk_size = DefaultChunk
  /\ BInit
DbNext == SetupDatabase \/ StoreRow
DbSpec == DbInit /\ [][DbNext]_vars

\* ------------------------------------------------- extraction: the claims
\* The cells the specification lets extraction combine: valid and in radius.
Usable(ds, st) ==
  {k \in 1..Size(ds) : WithinRadius(ds, st, k) /\ valid_data(ds.soil_moisture[k])}

\* Sums over the usable cells among the first upto cells.
RefWeightSum(ds, st, upto) ==
  MaskedSum(Usable(ds, st), [k \in 1..Size(ds) |-> final_weights(ds, st, k)], 1, upto)
RefWeightedSum(ds, st, upto) ==
  MaskedSum(Usable(ds, st),
            [k \in 1..Size(ds) |-> RMul(ds.soil_moisture[k], final_weights(ds, st, k))],
            1, upto)
RefQualitySum(ds, st, upto) ==
  MaskedSum(Usable(ds, st),
            [k \in 1..Size(ds) |-> RMul(IsBest(ds, k), weights(ds, st, k))], 1, upto)
RefDistanceWeightSum(ds, st, upto) ==
  MaskedSum(Usable(ds, st), [k \in 1..Size(ds) |-> weights(ds, st, k)], 1, upto)

Processed == IF i * chunk_size < Size(datasets) THEN i * chunk_size ELSE Size(datasets)

NaNResult == [value |-> NaN, quality |-> Zero]

\* C1: once both paths have run on the same grid, target and radius, the
\* chunked extraction has returned the same value and the same quality score
\* as the single-pass extraction.
C1_ChunkedEqualsSinglePass ==
  xpc = "done" => chunked_result = single_result

\* C2, single-pass half: the single-pass result is built from the usable
\* (valid and within radius) cells alone.
C2_SinglePassUsesUsableOnly ==
  xpc # "single" =>
    \/ single_result = NaNResult
    \/ /\ single_result.value =
            RDiv(RefWeightedSum(datasets, target, Size(datasets)),
                 RefWeightSum(datasets, target, Size(datasets)))
       /\ single_result.quality =
            Trunc(RMul(RDiv(RefQualitySum(datasets, target, Size(datasets)),
                            RefDistanceWeightSum(datasets, target, Size(datasets))),
                       RInt(100)))

\* C2, chunked half: after every chunk the three accumulators hold the sums
\* over the usable cells of the slices handled so far, so no fill or
\* out-of-range cell has contributed to them.
C2_ChunkedUsesUsableOnly ==
  /\ weight_sum = RefWeightSum(datasets, target, Processed)
  /\ weighted_sum = RefWeightedSum(datasets, target, Processed)
  /\ quality_sum = RefQualitySum(datasets, target, Processed)

\* C2: a fill (-9999) or out-of-range cell never contributes to the value,
\* the accumulated weight sums or the quality score, on either path.
C2_OnlyUsableCellsContribute ==
  C2_SinglePassUsesUsableOnly /\ C2_ChunkedUsesUsableOnly

\* C3: with fewer than 3 usable cells both paths return (NaN, 0.0).
C3_FewerThanThreeIsNaN ==
  (xpc = "done" /\ Cardinality(Usable(datasets, target)) < MinPixels) =>
    (single_result = NaNResult /\ chunked_result = NaNResult)

\* C3, single-pass half alone.
C3_SinglePassFewerThanThreeIsNaN ==
  (xpc # "single" /\ Cardinality(Usable(datasets, target)) < MinPixels) =>
    single_result = NaNResult

\* C11: a grid is handled in a single pass exactly when its cell count is
\* below chunk_size, and by the chunked path exactly when it is at or above
\* chunk_size.
C11_ChunkedAtOrAboveChunkSize ==
  xpc = "returned" =>
    /\ (dispatched.path = "single") <=> (Size(datasets) < chunk_size)
    /\ (dispatched.path = "chunked") <=> (Size(datasets) >= chunk_size)

\* The cells each path selects: the single pass the usable cells, the
\* chunked path every cell within the radius.
SingleSelected == Usable(datasets, target)
ChunkedSelected == {k \in 1..Size(datasets) : WithinRadius(datasets, target, k)}

\* 100 * (sum of the distance weights of the cells of sel with quality
\* code 0) / (sum of the distance weights of the cells of sel)
RefScore(sel) ==
  LET n == Size(datasets)
      w == [k \in 1..n |-> weights(datasets, target, k)]
      bw == [k \in 1..n |-> RMul(IsBest(datasets, k), w[k])]
  IN RMul(RDiv(MaskedSum(sel, bw, 1, n), MaskedSum(sel, w, 1, n)), RInt(100))

AllBest(sel) == \A k \in sel : datasets.retrieval_qual_flag[k] = 0

ScoreIs(result, sel) ==
  /\ result.quality = RefScore(sel)
  /\ RLeq(Zero, result.quality) /\ RLeq(result.quality, RInt(100))
  /\ (result.quality = RInt(100)) <=> AllBest(sel)

\* C12: on both paths the quality score of a non-NaN result is 100 times
\* the distance-weighted fraction of the selected cells with quality code
\* 0; it lies in [0, 100] and is 100 exactly when every selected cell has
\* quality code 0.
C12_ScoreIsDistanceWeightedFraction ==
  xpc = "done" =>
    /\ ~IsNaN(single_result.value) => ScoreIs(single_result, SingleSelected)
    /\ ~IsNaN(chunked_result.value) => ScoreIs(chunked_result, ChunkedSelected)

\* C12 as the single pass has it: the distance-weighted fraction truncated
\* to an integer.
C12_SinglePassScoreTruncated ==
  (xpc = "done" /\ ~IsNaN(single_result.value)) =>
    /\ single_result.quality = Trunc(RefScore(SingleSelected))
    /\ (single_result.quality = RInt(100)) <=> AllBest(SingleSelected)

\* the weighted mean of the values of the cells of sel, weighted by the
\* final weights
RefMean(sel) ==
  LET n == Size(datasets)
      fw == [k \in 1..n |-> final_weights(datasets, target, k)]
      smfw == [k \in 1..n |-> RMul(datasets.soil_moisture[k], fw[k])]
  IN RDiv(MaskedSum(sel, smfw, 1, n), MaskedSum(sel, fw, 1, n))

\* C13: the value extraction returns is the weighted mean of the selected
\* cells' values in native units, with no normalization applied, whichever
\* path handles the grid.
C13_ValueInNativeUnits ==
  xpc = "done" =>
    /\ ~IsNaN(single_result.value) => single_result.value = RefMean(SingleSelected)
    /\ ~IsNaN(chunked_result.value) => chunked_result.value = RefMean(ChunkedSelected)

\* C13, single-pass half alone.
C13_SinglePassValueInNativeUnits ==
  (xpc = "done" /\ ~IsNaN(single_result.value)) =>
    single_result.value = RefMean(SingleSelected)

\* ------------------------------------------------- normalizer: the claims
\* the domain the normalizer is applied to: soil moisture from 0 to 0.5
DomainMin == Zero
DomainMax == Rat(1, 2)

\* clip((value - domain_min) / (domain_max - domain_min), 0, 1)
Clip01(value) ==
  LET scaled == RDiv(RAdd(value, RMul(RInt(-1), DomainMin)),
                     RAdd(DomainMax, RMul(RInt(-1), DomainMin)))
  IN IF RLess(scaled, Zero) THEN Zero ELSE IF RLess(One, scaled) THEN One ELSE scaled

\* C17: every value the normalizer returns lies in [0, 1]; NaN is mapped to
\* 0.0; any other input x is mapped to clip((x - 0) / (0.5 - 0), 0, 1); and
\* the normalizer is monotone non-decreasing.
C17_NormalizerClipsToUnitInterval ==
  /\ \A k \in 1..Len(norm_out) :
       /\ ~IsNaN(norm_out[k])
       /\ RLeq(Zero, norm_out[k]) /\ RLeq(norm_out[k], One)
       /\ IsNaN(norm_args[k]) => norm_out[k] = Zero
       /\ ~IsNaN(norm_args[k]) => norm_out[k] = Clip01(norm_args[k])
  /\ (Len(norm_out) = 2 /\ ~IsNaN(norm_args[1]) /\ ~IsNaN(norm_args[2])
        /\ RLeq(norm_args[1], norm_args[2]))
       => RLeq(norm_out[1], norm_out[2])

\* C17 witness: the normalizer has been called with NaN and with a value
\* above the domain, and has returned 0 and 1.
C17_Witness ==
  /\ Len(norm_out) = 2
  /\ IsNaN(norm_args[1]) /\ norm_out[1] = Zero
  /\ RLess(DomainMax, norm_args[2]) /\ norm_out[2] = One

\* ---------------------------------------------------- terrain: the claims
\* a tile that gives a full 3x3 window: it is fetched and read, the target
\* is not on its first or last row or column, and the read gives 9 cells
GivesFullWindow(t) ==
  /\ t.fetch = "ok" /\ t.opens
  /\ t.row > 0 /\ t.row < t.height - 1
  /\ t.col > 0 /\ t.col < t.width - 1
  /\ Cardinality(WindowCells(t)) = 9

FullWindowTiles == {j \in 1..Len(tiles) : GivesFullWindow(tiles[j])}
FirstFullWindow == CHOOSE j \in FullWindowTiles : \A k \in FullWindowTiles : j <= k

\* the nine cells of the window around the target of tile t, by compass point
Cell(t, dr, dc) == t.band[t.row + dr][t.col + dc]
DxOf(t) ==
  Rat((Cell(t, -1, 1) + 2 * Cell(t, 0, 1) + Cell(t, 1, 1))
        - (Cell(t, -1, -1) + 2 * Cell(t, 0, -1) + Cell(t, 1, -1)), 8 * 30)
DyOf(t) ==
  Rat((Cell(t, 1, -1) + 2 * Cell(t, 1, 0) + Cell(t, 1, 1))
        - (Cell(t, -1, -1) + 2 * Cell(t, -1, 0) + Cell(t, -1, 1)), 8 * 30)
D8Slope(t) == RAdd(RMul(DxOf(t), DxOf(t)), RMul(DyOf(t), DyOf(t)))

\* C14: the loop passes over every tile that does not give a full window;
\* a returned call has taken elevation and slope from the first tile, in
\* order, that gives a full window, and has returned (0.0, 0.0) when no
\* tile does.
C14_FullWindowOrNextTileOrDefault ==
  /\ \A j \in 1..Len(tiles) : (j < tile_idx) => ~GivesFullWindow(tiles[j])
  /\ tpc = "returned" =>
       IF FullWindowTiles = {} THEN terrain = DefaultTerrain
       ELSE /\ tile_idx = FirstFullWindow
            /\ terrain = [elevation |-> RInt(Cell(tiles[FirstFullWindow], 0, 0)),
                          slope |-> D8Slope(tiles[FirstFullWindow])]

\* C14 witness: the first tile had the target on its boundary and the
\* second tile, with a full window on sloping ground, gave the result.
C14_Witness ==
  /\ tpc = "returned" /\ Len(tiles) = 2 /\ tile_idx = 2
  /\ tiles[1].fetch = "ok" /\ tiles[1].opens /\ ~GivesFullWindow(tiles[1])
  /\ terrain.slope # Zero

AllIdentical(t) ==
  \A dr \in {-1, 0, 1}, dc \in {-1, 0, 1} : Cell(t, dr, dc) = Cell(t, 0, 0)

\* C16: for a full window the returned elevation is the centre cell and
\* the slope is the one of dx = ((NE + 2E + SE) - (NW + 2W + SW)) / (8 * 30)
\* and dy = ((SW + 2S + SE) - (NW + 2N + NE)) / (8 * 30); it is 0 when the
\* nine elevations are identical and nonzero when dx or dy is nonzero.
C16_SlopeIsD8OfFullWindow ==
  (tpc = "returned" /\ FullWindowTiles # {}) =>
    LET t == tiles[tile_idx]
    IN /\ terrain.elevation = RInt(Cell(t, 0, 0))
       /\ terrain.slope = D8Slope(t)
       /\ AllIdentical(t) => terrain.slope = Zero
       /\ (DxOf(t) # Zero \/ DyOf(t) # Zero) => terrain.slope # Zero

\* C16 witness: a full window with one cell a step above the others has
\* given a nonzero slope.
C16_Witness ==
  /\ tpc = "returned" /\ FullWindowTiles # {}
  /\ ~AllIdentical(tiles[tile_idx])
  /\ terrain.slope # Zero
  /\ terrain.elevation = RInt(100)

\* ---------------------------------------------- station loop: the claims
ShapeMismatch(ds) ==
  \E a \in {ds.retrieval_qual_flag, ds.latitude, ds.longitude} :
    Len(a) # Len(ds.soil_moisture)

\* C15: value, quality, latitude and longitude arrays of mismatched shapes
\* make the call fail: no station gets a result, no station is passed over
\* with a logged error, and the call does not return normally.
C15_MismatchedShapesFailLoudly ==
  ShapeMismatch(datasets) =>
    /\ g_data = EmptyDict
    /\ g_logged = {}
    /\ g_idx = 1
    /\ gpc # "returned"

\* extraction for station k computed from the grid, the station and the
\* configuration alone
FreshExtract(ds, k, cs) ==
  IF Size(ds) > cs
  THEN ChunkedReturn(ChunkLoop([weighted_sum |-> Zero, weight_sum |-> Zero,
                                quality_sum |-> Zero], ds, k, cs, 0))
  ELSE SinglePass(ds, k)

Extracted == {g_order[j] : j \in 1..(g_idx - 1)}

\* the result of every station extracted so far is the one extraction gives
\* for that station and grid alone, whatever was extracted before it
ResultsIndependentOfOrder ==
  ~ShapeMismatch(datasets) =>
    \A k \in Extracted :
      LET fresh == FreshExtract(datasets, k, chunk_size)
      IN IF IsNaN(fresh.value) THEN Stations[k].id \notin DOMAIN g_data
         ELSE /\ Stations[k].id \in DOMAIN g_data
              /\ g_data[Stations[k].id].soil_moisture = fresh.value
              /\ g_data[Stations[k].id].quality_flag = fresh.quality

\* C18: an extraction call leaves the input grids, the chunk size and the
\* station list as they were, and the result for a station and grid does
\* not depend on the stations extracted before it nor on their order.
C18_ExtractionIsStateless ==
  /\ []ResultsIndependentOfOrder
  /\ [][datasets' = datasets /\ chunk_size' = chunk_size /\ g_order' = g_order]_vars

\* C18 witness: the chunked path has extracted a value for both stations,
\* the stations taken in reverse order.
C18_Witness ==
  /\ gpc = "returned"
  /\ g_order = <<2, 1>>
  /\ TakesChunkedPath(datasets, chunk_size)
  /\ DOMAIN g_data = {Stations[1].id, Stations[2].id}
  /\ weight_sum # Zero

\* ------------------------------------------- the table stations: the claims
\* C19: once a terrain sample has been saved for a station, the station's
\* row keeps that elevation and slope: no later store_stations call and no
\* later StaticProcessor run replaces them.
C19_TerrainSampleWrittenOnce ==
  \A id \in DOMAIN first_written :
    /\ id \in DOMAIN stations_tbl
    /\ stations_tbl[id] = first_written[id]

\* ------------------------------------------------------ search: the claims
\* the attempts at which search_datasets returned a non-empty list
NonEmpty == {k \in 1..Len(responses) : responses[k] \in {"results", "bare"}}
FirstNonEmpty == CHOOSE k \in NonEmpty : \A j \in NonEmpty : k <= j

\* C20: the searches are made in the order of search_attempts, beginning
\* with (short_name="VegDRI", cloud_hosted=True); the call returns the
\* results of the first attempt that gave a non-empty list and makes no
\* search after it, so a first attempt that succeeds means exactly one
\* search.
C20_FirstNonEmptySearchWins ==
  /\ \A k \in 1..Len(calls) : calls[k] = search_attempts[k]
  /\ (qpc = "returned" /\ NonEmpty # {}) =>
       /\ search_result = ResultsOf(FirstNonEmpty)
       /\ Len(calls) = FirstNonEmpty

\* C20 for result lists whose items can all be logged.
C20_FirstLoggableSearchWins ==
  /\ \A k \in 1..Len(calls) : calls[k] = search_attempts[k]
  /\ (qpc = "returned" /\ NonEmpty # {} /\ \A k \in NonEmpty : responses[k] = "results") =>
       /\ search_result = ResultsOf(FirstNonEmpty)
       /\ Len(calls) = FirstNonEmpty

\* ------------------------------------------------------ login: the claims
\* C21: authenticate raises whenever earthaccess.login raises and returns,
\* the auth object, only when the login succeeded; and a processor whose
\* login raised is not running and is through with no day.
C21_FailedLoginRaises ==
  /\ auth.login = "raises" => auth.result = "raised"
  /\ auth.result = "returned" => auth.login = "ok"
  /\ login = "raised" => (ppc = "idle" /\ handled = <<>>)

\* C21 witness: authenticate has raised, and the construction of a
\* processor has failed after an earlier processor saved records
C21_Witness ==
  /\ auth.login = "raises"
  /\ auth.result = "raised"
  /\ login = "raised"
  /\ smap_features # {}

\* --------------------------------------------------- distance: the claims
\* C22: the distance is the same from the station to the cell and from the
\* cell to the station, is 0 from a point to itself, is never NaN, and is
\* the same in the single pass and in a chunk.
C22_DistanceSymmetricZeroNeverNaN ==
  /\ (d_single # NoDistance /\ d_reverse # NoDistance) => d_single = d_reverse
  /\ d_self # NoDistance => d_self = Zero
  /\ \A d \in {d_single, d_chunked, d_reverse, d_self} : ~IsNaN(d)
  /\ (d_single # NoDistance /\ d_chunked # NoDistance) => d_single = d_chunked

\* C22 witness: the four distances computed for two antipodal points, a + b
\* rounded to more than 1
C22_Witness ==
  /\ station_pt = [latitude |-> 60, longitude |-> 0]
  /\ cell_pt = [latitude |-> -60, longitude |-> 180]
  /\ rounding = 1
  /\ d_single = One
  /\ d_chunked = One
  /\ d_reverse = One
  /\ d_self = Zero

\* ----------------------------------------------- chunk loop: the claims
Identity(n) == [j \in 1..n |-> j]

\* no cell of the chunk about to be handled is within the radius
NextSliceOutOfRadius ==
  \A k \in (Processed + 1)..Size(datasets) :
    k <= (i + 1) * chunk_size => ~WithinRadius(datasets, target, k)

\* C23: while the chunk loop runs it has sliced out the first
\* min(i * chunk_size, n) cells, each once and in ascending order; once it
\* is over it has sliced out every cell; and an iteration whose slice has no
\* cell within the radius leaves the three accumulators as they are.
C23_SlicesPartitionTheGrid ==
  /\ [](/\ xpc = "chunk" => examined = Identity(Processed)
        /\ xpc \in {"done", "returned"} => examined = Identity(Size(datasets)))
  /\ [][(xpc = "chunk" /\ i' = i + 1 /\ NextSliceOutOfRadius)
          => UNCHANGED <<weighted_sum, weight_sum, quality_sum>>]_vars

\* C23 witness: the loop is over for a grid whose size is not a multiple of
\* chunk_size, after a last, shorter slice
C23_Witness ==
  /\ xpc = "done"
  /\ chunk_size = SmallChunk
  /\ Size(datasets) % chunk_size # 0
  /\ Size(datasets) > chunk_size
  /\ examined = Identity(Size(datasets))

\* ------------------------------------------------- openflow_cron: the claims
DateStrings(first, last) == [j \in 1..(last - first + 1) |-> <<first + j - 1>>]
IsPrefix(s, t) == Len(s) <= Len(t) /\ \A j \in 1..Len(s) : s[j] = t[j]

\* C28, the halves that hold: the dates put into the queue are the
\* total_days dates from the start date to the end date of the metadata,
\* ascending; they are got from the queue in that order; and no temporary
\* file of process_date is left.
C28_EnqueuedOnceDequeuedInOrder ==
  /\ metadata # Absent =>
       /\ enqueued = DateStrings(metadata[1][1], metadata[2][1])
       /\ Len(enqueued) = total_days
  /\ IsPrefix(dequeued, enqueued)
  /\ IsPrefix(completed, dequeued)
  /\ cron_files = {}

\* C28: the same, and every date got from the queue is processed to its end
\* and marked done, main ending with an empty queue and every date done.
C28_EveryDateProcessedInOrder ==
  /\ C28_EnqueuedOnceDequeuedInOrder
  /\ completed = dequeued
  /\ tasks_done = Len(dequeued)
  /\ (cpc = "ended" /\ metadata # Absent) =>
       /\ queue = <<>>
       /\ dequeued = enqueued
       /\ tasks_done = total_days

\* C29: while search_vegdri_dataset runs, every attempt made so far was
\* followed by the next; when no attempt of the five gave usable results it
\* has made the five calls and returned the empty list; and main, after
\* such a search, ends without an error, without a row in vegdri_metadata
\* and without a date in the queue.
Searched == cpc \in {"search", "queue", "ended"} /\ auth.result = "returned"
AllAttemptsFailed == \A j \in 1..Len(responses) : responses[j] # "results"

C29_FailedSearchEndsQuietly ==
  Searched =>
    /\ qpc = "searching" =>
         /\ Len(calls) = attempt - 1
         /\ \A j \in 1..(attempt - 1) : responses[j] # "results"
    /\ (qpc = "returned" /\ AllAttemptsFailed) =>
         /\ search_result = NoResults
         /\ Len(calls) = Len(search_attempts)
    /\ (cpc = "ended" /\ AllAttemptsFailed) =>
         /\ ~main_error
         /\ metadata = Absent
         /\ enqueued = <<>>
         /\ queue = <<>>

\* C29 witness: main has ended after a search whose five attempts raised,
\* gave an empty list or gave items that could not be logged
C29_Witness ==
  /\ cpc = "ended"
  /\ Searched
  /\ AllAttemptsFailed
  /\ {responses[j] : j \in 1..Len(responses)} = {"error", "empty", "bare"}
  /\ Len(calls) = Len(search_attempts)
  /\ metadata = Absent

\* --------------------------------------------- setup_database: the claims
\* C30: once setup_database has returned, check_database_structure holds;
\* a call that met a file on which it held has left the file as it was; and
\* so has every call but the first.
C30_SetupIdempotentAndNonDestructive ==
  setups > 0 =>
    /\ db.exists
    /\ check_database_structure(db.tables)
    /\ (db_before.exists /\ check_database_structure(db_before.tables)) => db_after = db_before
    /\ setups > 1 => db_after = db_before

\* C30 witness: the second call has returned, on a file whose tables hold
\* rows, one of them stored after the first call, and one with a column
\* more than expected
C30_Witness ==
  /\ setups = 2
  /\ db = db_before
  /\ db = db_after
  /\ \A t \in DOMAIN expected_tables : db.tables[t].rows = 1
  /\ "extra" \in db.tables["smap_features"].columns

\* --------------------------------------------------- pipeline: the claims
\* The cells the path that handles grid ds combines for station k.
SelectedCells(ds, k, cs) ==
  IF Size(ds) > cs THEN {c \in 1..Size(ds) : WithinRadius(ds, k, c)}
  ELSE Usable(ds, k)

BothPasses(k) == station_am(k) # None /\ station_pm(k) # None
Fused(k) == Stations[k].id \in DOMAIN daily_data
FusedRecord(k) == daily_data[Stations[k].id]
Combined(k) == ppc = "day" /\ station_idx > k

\* C4: for a station with both passes usable (at least 3 usable cells in
\* each grid), if every cell selected from
\* the AM grid has quality code 0 and no cell selected from the PM grid has,
\* the fused value is the AM value.
C4_BetterRetrievalQualityWins ==
  \A k \in 1..Len(Stations) :
    ( /\ Combined(k) /\ BothPasses(k) /\ Fused(k)
      /\ Cardinality(Usable(am_grid, k)) >= MinPixels
      /\ Cardinality(Usable(pm_grid, k)) >= MinPixels
      /\ \A c \in SelectedCells(am_grid, k, chunk_size) :
           am_grid.retrieval_qual_flag[c] = 0
      /\ \A c \in SelectedCells(pm_grid, k, chunk_size) :
           pm_grid.retrieval_qual_flag[c] # 0 )
    => FusedRecord(k).soil_moisture = station_am(k).soil_moisture

LowerPass(k) ==
  IF RLess(station_am(k).quality_flag, station_pm(k).quality_flag)
  THEN station_am(k) ELSE station_pm(k)

\* C5: with both passes present and different quality flags, the fused
\* record has exactly the soil_moisture and the quality_flag of the pass
\* with the strictly lower flag.
C5_LowerFlagWins ==
  \A k \in 1..Len(Stations) :
    ( Combined(k) /\ BothPasses(k)
      /\ station_am(k).quality_flag # station_pm(k).quality_flag )
    => /\ Fused(k)
       /\ FusedRecord(k).soil_moisture = LowerPass(k).soil_moisture
       /\ FusedRecord(k).quality_flag = LowerPass(k).quality_flag

\* C5 as the code has it: the value of the lower pass, its flag truncated.
C5_LowerFlagWinsTruncated ==
  \A k \in 1..Len(Stations) :
    ( Combined(k) /\ BothPasses(k)
      /\ station_am(k).quality_flag # station_pm(k).quality_flag )
    => /\ Fused(k)
       /\ FusedRecord(k).soil_moisture = LowerPass(k).soil_moisture
       /\ FusedRecord(k).quality_flag = Trunc(LowerPass(k).quality_flag)

\* C6: with both passes present and equal quality flags, the fused record
\* has the arithmetic mean of the two values and the shared flag.
C6_TieAverages ==
  \A k \in 1..Len(Stations) :
    ( Combined(k) /\ BothPasses(k)
      /\ station_am(k).quality_flag = station_pm(k).quality_flag )
    => /\ Fused(k)
       /\ FusedRecord(k).soil_moisture =
            RDiv(RAdd(station_am(k).soil_moisture, station_pm(k).soil_moisture), RInt(2))
       /\ FusedRecord(k).quality_flag = station_am(k).quality_flag

\* C6 as the code has it: the mean, with the shared flag truncated.
C6_TieAveragesTruncated ==
  \A k \in 1..Len(Stations) :
    ( Combined(k) /\ BothPasses(k)
      /\ station_am(k).quality_flag = station_pm(k).quality_flag )
    => /\ Fused(k)
       /\ FusedRecord(k).soil_moisture =
            RDiv(RAdd(station_am(k).soil_moisture, station_pm(k).soil_moisture), RInt(2))
       /\ FusedRecord(k).quality_flag = Trunc(station_am(k).quality_flag)

OnlyPass(k) == IF station_am(k) # None THEN station_am(k) ELSE station_pm(k)
ExactlyOnePass(k) == (station_am(k) # None) # (station_pm(k) # None)

\* C7: when exactly one pass produced a result for a station, the fused
\* record carries that pass's value and quality flag unchanged.
C7_SinglePassVerbatim ==
  \A k \in 1..Len(Stations) :
    (Combined(k) /\ ExactlyOnePass(k))
    => /\ Fused(k)
       /\ FusedRecord(k).soil_moisture = OnlyPass(k).soil_moisture
       /\ FusedRecord(k).quality_flag = OnlyPass(k).quality_flag

\* C7 as the code has it: the value unchanged, the flag truncated.
C7_SinglePassTruncated ==
  \A k \in 1..Len(Stations) :
    (Combined(k) /\ ExactlyOnePass(k))
    => /\ Fused(k)
       /\ FusedRecord(k).soil_moisture = OnlyPass(k).soil_moisture
       /\ FusedRecord(k).quality_flag = Trunc(OnlyPass(k).quality_flag)

\* a pass without usable data for station k: no granule read, no valid cell
\* within the radius, or a NaN extraction
NoUsableData(grid, k) ==
  \/ grid = None
  \/ Usable(grid, k) = {}
  \/ IsNaN(_get_station_data(grid, k, chunk_size).value)

\* C8: a station for which neither pass has usable data gets no pass result
\* and no fused record.
C8_NoUsableDataNoRecord ==
  \A k \in 1..Len(Stations) :
    (Combined(k) /\ NoUsableData(am_grid, k) /\ NoUsableData(pm_grid, k))
    => /\ station_am(k) = None
       /\ station_pm(k) = None
       /\ ~Fused(k)

\* C8 on the single-pass path alone.
C8_SinglePassNoUsableDataNoRecord ==
  chunk_size = DefaultChunk => C8_NoUsableDataNoRecord

\* C24: every soil_moisture of a fused record, of the day or in the table
\* smap_features, lies in [0, 1]; and a fused value that is the average of
\* the two passes lies between them.
InUnitInterval(x) == RLeq(Zero, x) /\ RLeq(x, One)
Averaged(k) ==
  /\ BothPasses(k)
  /\ ~RLess(station_am(k).quality_flag, station_pm(k).quality_flag)
  /\ ~RLess(station_pm(k).quality_flag, station_am(k).quality_flag)

C24_FusedValueInUnitInterval ==
  /\ \A r \in DictValues(daily_data) \cup smap_features : InUnitInterval(r.soil_moisture)
  /\ \A k \in 1..Len(Stations) :
       (Combined(k) /\ Averaged(k)) =>
         /\ Fused(k)
         /\ RLeq(RMin(station_am(k).soil_moisture, station_pm(k).soil_moisture),
                 FusedRecord(k).soil_moisture)
         /\ RLeq(FusedRecord(k).soil_moisture,
                 RMax(station_am(k).soil_moisture, station_pm(k).soil_moisture))

\* C24 witness: a processor on the chunked path has averaged two different
\* pass values for a station, records of an earlier run being in the table
C24_Witness ==
  /\ chunk_size = SmallChunk
  /\ smap_features # {}
  /\ \E k \in 1..Len(Stations) :
       /\ Combined(k)
       /\ Averaged(k)
       /\ station_am(k).soil_moisture # station_pm(k).soil_moisture
       /\ InUnitInterval(FusedRecord(k).soil_moisture)

\* C25: the days a running processor is through with are the days from
\* start_date up to the day before current_date, each once and in ascending
\* order; a processor that has run is through with every day from
\* start_date to end_date; and a running processor comes to its end.
DaysFrom(first, last) == [j \in 1..(last - first + 1) |-> first + j - 1]

C25_EveryDayOnceThenTerminates ==
  /\ [](/\ ppc # "idle" =>
             /\ current_date <= (IF start_date <= end_date THEN end_date + 1 ELSE start_date)
             /\ handled = DaysFrom(start_date, current_date - 1)
        /\ (ppc = "idle" /\ login = "ok") => handled = DaysFrom(start_date, end_date))
  /\ [](ppc # "idle" => <>(ppc = "idle"))

\* C25 witness: a processor has run over two days and is at its end, the
\* save of the last day having raised with nothing in the table
C25_Witness ==
  /\ ppc = "idle"
  /\ login = "ok"
  /\ handled = <<1, 2>>
  /\ n_granules > 0
  /\ smap_features = {}
  /\ Truthy(daily_data)

\* C26: once the combine loop has handled a station for which some granule
\* of the day gave a result, the station has a fused record of the day.
C26_YieldedDataReachesFusion ==
  \A k \in 1..Len(Stations) :
    (Combined(k) /\ Stations[k].id \in yielded) => Fused(k)

\* C27: during a day no file of a granule handled before is left in
\* temp_smap, and none is left once process_data is over.
C27_GranuleFilesDeletedAtOnce ==
  /\ ppc = "day" => temp_files = {}
  /\ ppc = "idle" => temp_files = {}

\* C27, the second half alone: no file is left once process_data is over
C27_NoFileLeftAtTheEnd == ppc = "idle" => temp_files = {}

\* C9: within a day, no station is fused while a granule of that day is
\* still to be handled.
C9_FusionAfterAllGranules ==
  (ppc = "day" /\ (station_idx > 1 \/ daily_data # EmptyDict))
    => granule_idx > n_granules

\* C9 witness: a station has been fused on a day with an AM and a PM granule.
C9_Witness ==
  /\ ppc = "day" /\ station_idx > 1 /\ n_granules = 2
  /\ am_grid # None /\ pm_grid # None
  /\ BothPasses(1) /\ Fused(1)

\* C10: the feature store holds at most one record per (timestamp,
\* station_id), and a day's processing yields at most one record per station.
C10_OneRecordPerStationDay ==
  /\ \A r1, r2 \in smap_features : SameKey(r1, r2) => r1 = r2
  /\ \A r1, r2 \in DictValues(daily_data) : r1.station_id = r2.station_id => r1 = r2
  /\ \A id \in DOMAIN daily_data : daily_data[id].station_id = id

\* C10 witness: a day has been saved a second time, with a record that
\* differs from the one the first save stored.
C10_Witness ==
  /\ replaced
  /\ runs = 2
  /\ \E r \in smap_features : r.timestamp = Timestamp(1)

====
